---- MODULE Spec2Model ----
(***************************************************************************)
(* Natural-language-to-SQL safety pipeline of the analytics chatbot:       *)
(*   - app/services/sql_validator.py  (SQLValidator)                       *)
(*   - app/services/llm_service.py    (LLMService)                         *)
(*   - app/services/chat_service.py   (ChatService)                        *)
(*                                                                         *)
(* Text is modelled character by character: a Python str is a sequence of  *)
(* one-character strings, so that case folding, whitespace trimming, word  *)
(* boundaries and substring search are computed, not assumed.              *)
(***************************************************************************)
EXTENDS Integers, Sequences, FiniteSets, TLC

(***************************************************************************)
(* Characters and the str methods the code uses                            *)
(***************************************************************************)
LowerLetters ==
  <<"a","b","c","d","e","f","g","h","i","j","k","l","m","n","o","p","q","r","s","t","u","v","w","x","y","z">>
UpperLetters ==
  <<"A","B","C","D","E","F","G","H","I","J","K","L","M","N","O","P","Q","R","S","T","U","V","W","X","Y","Z">>
Digits == {"0","1","2","3","4","5","6","7","8","9"}

\* Python None, where the value is otherwise a text or a message
None == <<"<None>">>

\* Python None, where the value is otherwise a member of an Enum
NoneType == "None"

\* characters str.strip() removes (the ASCII ones that occur in the model)
WhiteSpace == {" ", "\t", "\n"}

LowerSet == {LowerLetters[i] : i \in 1..26}

UpperSet == {UpperLetters[i] : i \in 1..26}

UpperOf == [c \in LowerSet |-> UpperLetters[CHOOSE i \in 1..26 : LowerLetters[i] = c]]

LowerOf == [c \in UpperSet |-> LowerLetters[CHOOSE i \in 1..26 : UpperLetters[i] = c]]

\* str.upper() and str.lower(), one character
UpperChar(c) == IF c \in LowerSet THEN UpperOf[c] ELSE c

LowerChar(c) == IF c \in UpperSet THEN LowerOf[c] ELSE c

\* str.upper()
ToUpper(s) == [i \in 1..Len(s) |-> UpperChar(s[i])]

\* str.lower()
ToLower(s) == [i \in 1..Len(s) |-> LowerChar(s[i])]

\* the regular-expression class \w
WordChars == LowerSet \cup UpperSet \cup Digits \cup {"_"}

IsWordChar(c) == c \in WordChars

\* the regular-expression class \s
IsSpace(c) == c \in WhiteSpace

\* s[a:b] with 1-based inclusive bounds
Slice(s, a, b) == IF a > b THEN <<>> ELSE SubSeq(s, a, b)

\* number of leading characters of s that are in the set cs
LeadCount(s, cs) ==
  IF \A i \in 1..Len(s) : s[i] \in cs THEN Len(s)
  ELSE (CHOOSE i \in 1..Len(s) : s[i] \notin cs /\ \A j \in 1..(i-1) : s[j] \in cs) - 1

\* number of trailing characters of s that are in the set cs
TrailCount(s, cs) ==
  IF \A i \in 1..Len(s) : s[i] \in cs THEN Len(s)
  ELSE Len(s) - (CHOOSE i \in 1..Len(s) : s[i] \notin cs /\ \A j \in (i+1)..Len(s) : s[j] \in cs)

\* str.rstrip(chars)
RStripChars(s, cs) == Slice(s, 1, Len(s) - TrailCount(s, cs))

\* str.strip(chars)
StripChars(s, cs) ==
  IF \A i \in 1..Len(s) : s[i] \in cs THEN <<>>
  ELSE Slice(s, LeadCount(s, cs) + 1, Len(s) - TrailCount(s, cs))

\* str.strip()
Strip(s) == StripChars(s, WhiteSpace)

\* p occurs in s starting at index i
OccursAt(p, s, i) ==
  /\ i >= 1
  /\ i + Len(p) - 1 <= Len(s)
  /\ \A j \in 1..Len(p) : s[i + j - 1] = p[j]

\* the `in' operator on strings
Contains(p, s) == \E i \in 1..(Len(s) - Len(p) + 1) : OccursAt(p, s, i)

\* str.startswith
StartsWith(s, p) == OccursAt(p, s, 1)

\* str.endswith
EndsWith(s, p) == Len(p) <= Len(s) /\ OccursAt(p, s, Len(s) - Len(p) + 1)

\* index of the first occurrence of p in s at or after index from, 0 if none
FindFrom(p, s, from) ==
  IF \E i \in from..(Len(s) - Len(p) + 1) : OccursAt(p, s, i)
  THEN CHOOSE i \in from..(Len(s) - Len(p) + 1) :
         /\ OccursAt(p, s, i)
         /\ \A k \in from..(i-1) : ~OccursAt(p, s, k)
  ELSE 0

\* str.count: number of non-overlapping occurrences, scanned left to right
RECURSIVE CountFrom(_, _, _)
CountFrom(p, s, from) ==
  LET i == FindFrom(p, s, from)
  IN IF i = 0 THEN 0 ELSE 1 + CountFrom(p, s, i + Len(p))

Count(p, s) == CountFrom(p, s, 1)

\* the regular-expression assertion \b at the gap before index i (1..Len+1)
WordAt(s, k) == k >= 1 /\ k <= Len(s) /\ IsWordChar(s[k])

WordBoundary(s, i) == WordAt(s, i - 1) # WordAt(s, i)

\* re.search(r'\b' + re.escape(p) + r'\b', s) finds a match
WordSearch(p, s) ==
  \E i \in 1..(Len(s) - Len(p) + 1) :
     /\ OccursAt(p, s, i)
     /\ WordBoundary(s, i)
     /\ WordBoundary(s, i + Len(p))

\* str.split()[0] : the first whitespace-delimited token, <<>> if there is none
FirstToken(s) ==
  LET t == Slice(s, LeadCount(s, WhiteSpace) + 1, Len(s))
  IN Slice(t, 1, LeadCount(t, {t[i] : i \in 1..Len(t)} \ WhiteSpace))

(***************************************************************************)
(* sql_validator.py: vocabulary                                            *)
(***************************************************************************)
\* in source order; a Python set, so the iteration order is not the source order
DANGEROUS_KEYWORDS ==
  << <<"I","N","S","E","R","T">>,
     <<"U","P","D","A","T","E">>,
     <<"D","E","L","E","T","E">>,
     <<"M","E","R","G","E">>,
     <<"U","P","S","E","R","T">>,
     <<"D","R","O","P">>,
     <<"C","R","E","A","T","E">>,
     <<"A","L","T","E","R">>,
     <<"T","R","U","N","C","A","T","E">>,
     <<"R","E","N","A","M","E">>,
     <<"G","R","A","N","T">>,
     <<"R","E","V","O","K","E">>,
     <<"D","E","N","Y">>,
     <<"E","X","E","C">>,
     <<"E","X","E","C","U","T","E">>,
     <<"C","A","L","L">>,
     <<"C","O","M","M","I","T">>,
     <<"R","O","L","L","B","A","C","K">>,
     <<"S","A","V","E","P","O","I","N","T">>,
     <<"C","O","P","Y">>,
     <<"V","A","C","U","U","M">>,
     <<"A","N","A","L","Y","Z","E">>,
     <<"C","L","U","S","T","E","R">>,
     <<"R","E","I","N","D","E","X">>,
     <<"L","O","C","K">>,
     <<"L","I","S","T","E","N">>,
     <<"N","O","T","I","F","Y">>,
     <<"U","N","L","I","S","T","E","N">>,
     <<"L","O","A","D">>,
     <<"I","N","T","O"," ","O","U","T","F","I","L","E">>,
     <<"I","N","T","O"," ","D","U","M","P","F","I","L","E">>,
     <<"L","O","A","D","_","F","I","L","E">> >>

SQL_INJECTION_PATTERNS ==
  << <<"-","-">>,
     <<"/","*">>,
     <<"*","/">>,
     <<"#">>,
     <<"U","N","I","O","N"," ","A","L","L"," ","S","E","L","E","C","T">>,
     <<"U","N","I","O","N"," ","S","E","L","E","C","T">>,
     <<";","-","-">>,
     <<";"," ","-","-">>,
     <<";","/","*">>,
     <<"S","L","E","E","P","(">>,
     <<"W","A","I","T","F","O","R">>,
     <<"B","E","N","C","H","M","A","R","K","(">>,
     <<"P","G","_","S","L","E","E","P","(">>,
     <<"'"," ","O","R"," ","'","1","'","=","'","1">>,
     <<"'"," ","O","R"," ","1","=","1">>,
     <<"\""," ","O","R"," ","\"","1","\"","=","\"","1">>,
     <<"O","R"," ","1","=","1","-","-">>,
     <<"'"," ","A","N","D"," ","'","1","'","=","'","1">>,
     <<"E","X","T","R","A","C","T","V","A","L","U","E","(">>,
     <<"U","P","D","A","T","E","X","M","L","(">>,
     <<"E","X","P","(">>,
     <<"@","@","V","E","R","S","I","O","N">>,
     <<"V","E","R","S","I","O","N","(",")">>,
     <<"D","A","T","A","B","A","S","E","(",")">>,
     <<"U","S","E","R","(",")">>,
     <<"C","U","R","R","E","N","T","_","U","S","E","R">>,
     <<"S","Y","S","T","E","M","_","U","S","E","R">>,
     <<"L","O","A","D","_","F","I","L","E">>,
     <<"I","N","T","O"," ","O","U","T","F","I","L","E">>,
     <<"I","N","T","O"," ","D","U","M","P","F","I","L","E">>,
     <<"P","G","_","R","E","A","D","_","F","I","L","E">>,
     <<"P","G","_","W","R","I","T","E","_","F","I","L","E">>,
     <<"L","O","_","I","M","P","O","R","T">>,
     <<"L","O","_","E","X","P","O","R","T">> >>

ALLOWED_TABLES ==
  { <<"s","a","l","e","s","_","a","n","a","l","y","t","i","c","s">>,
    <<"p","u","b","l","i","c",".","s","a","l","e","s","_","a","n","a","l","y","t","i","c","s">>,
    <<"s","t","o","c","k","_","g","w">>,
    <<"p","u","b","l","i","c",".","s","t","o","c","k","_","g","w">> }


\* default of the constructor parameter max_query_length
DefaultMaxQueryLength == 10000

(***************************************************************************)
(* State                                                                   *)
(***************************************************************************)
VARIABLES
  hashSeed,     \* the interpreter's string-hash seed: fixes the iteration order of sets
  validator,    \* the SQLValidator instance: its constructor-set fields
  probe,        \* caller of validate: the text under test
  input,        \* caller of validate: the argument of the latest call, None before
  verdict,      \* caller of validate: the ValidationResult of the latest call
  firstVerdict, \* caller of validate: the result of the first validate(probe)
  calls,        \* caller of validate: number of calls made so far
  probed,       \* caller of validate: number of those calls that validated the probe
  total_questions,      \* ChatService.total_questions
  successful_questions, \* ChatService.successful_questions
  failed_questions,     \* ChatService.failed_questions
  total_requests,       \* LLMService.total_requests
  total_tokens_used,    \* LLMService.total_tokens_used
  pc,                   \* per run of ask: where the coroutine stands
  candidate,            \* per run: sql_response.content, the text handed to validate
  validation_result,    \* per run: the local validation_result
  run_sql,              \* per run: the local sql after validation
  dispatched,           \* per run: the statement _execute_query sends to the database
  results,              \* per run: number of rows in the local results
  run_tokens,           \* per run: the local total_tokens
  trace,                \* per run: the stage methods ask has called so far, in order
  resp,                 \* per run: the ChatResponse returned, or how the run ended otherwise
  clock,                \* time.time(), in ticks
  timing,               \* per run: the locals start_time, sql_start, sql_gen_time, ...
  run_cost,             \* per run: the local total_cost
  measured,             \* per run: how long each stage that ended took, in milliseconds
  requests,             \* per run: requests the client sent for each text-generation call
  llm_calls,            \* calls of LLMService._call_llm that came back, since the last reset
  heap,                 \* the set objects: 0 is the module-level ALLOWED_TABLES, i the set
                        \* passed to the constructor of validator instance i
  instances,            \* the SQLValidator instances: allowed_tables refers to a set object
  own,                  \* per instance: the allowlist its constructor call and its own
                        \* add_allowed_table / remove_allowed_table calls give it
  schema,               \* the SemanticSchema loaded from the vocabulary document
  lookup,               \* the latest resolver lookup: method, argument, result
  generated,            \* per run: the text the generation call returned, before cleaning
  outcomes              \* per run: how each call the run awaited ended, in order:
                        \* "ok", "failed" (a failure reported), or what it raised

(***************************************************************************)
(* sql_validator.py: SQLValidator                                          *)
(***************************************************************************)

\* an f-string message: its fixed text and the value interpolated into it
Msg(text, arg) == <<text, arg>>

ValidationResult(is_valid, error_message, error_type, sanitized_sql) ==
  [is_valid |-> is_valid, error_message |-> error_message,
   error_type |-> error_type, sanitized_sql |-> sanitized_sql, warnings |-> None]

\* ValidationResult(is_valid=True)
Passed == ValidationResult(TRUE, None, NoneType, None)

\* no validate call has returned yet
NoVerdict == ValidationResult(FALSE, None, NoneType, None)

\* SQLValidator.__init__
NewValidator(allowed_tables, max_query_length, allow_subqueries, allow_cte) ==
  [allowed_tables |-> IF allowed_tables = {} THEN ALLOWED_TABLES ELSE allowed_tables,
   max_query_length |-> max_query_length,
   allow_subqueries |-> allow_subqueries,
   allow_cte |-> allow_cte]

Reverse(q) == [i \in 1..Len(q) |-> q[Len(q) + 1 - i]]

\* KeywordOrder, were the order to change from one call to the next
KeywordOrder_Unstable ==
  IF (hashSeed + calls) % 2 = 0 THEN DANGEROUS_KEYWORDS ELSE Reverse(DANGEROUS_KEYWORDS)

\* `for keyword in DANGEROUS_KEYWORDS': the order in which the set is iterated
KeywordOrder == IF hashSeed = 0 THEN DANGEROUS_KEYWORDS ELSE Reverse(DANGEROUS_KEYWORDS)

_check_multiple_statements(sql) ==
  LET sql_check == Strip(RStripChars(sql, {";"}))
  IN IF Contains(<<";">>, sql_check)
     THEN ValidationResult(FALSE,
            Msg("Multiple SQL statements detected. Only single SELECT queries are allowed.", <<>>),
            "MULTIPLE_STATEMENTS", None)
     ELSE Passed

\* _check_is_select_query, were the check to let every statement through
_check_is_select_query_Absent(self, sql_upper) == Passed

_check_is_select_query(self, sql_upper) ==
  LET sql_stripped == Strip(sql_upper)
  IN IF StartsWith(sql_stripped, <<"S","E","L","E","C","T">>) THEN Passed
     ELSE IF StartsWith(sql_stripped, <<"W","I","T","H">>)
     THEN IF self.allow_cte
          THEN IF Contains(<<"S","E","L","E","C","T">>, sql_stripped) THEN Passed
               ELSE ValidationResult(FALSE,
                      Msg("WITH clause (CTE) must contain a SELECT statement", <<>>),
                      "NON_SELECT_QUERY", None)
          ELSE ValidationResult(FALSE,
                 Msg("Common Table Expressions (WITH clause) are not allowed", <<>>),
                 "NON_SELECT_QUERY", None)
     ELSE ValidationResult(FALSE,
            Msg("Only SELECT queries are allowed. Found: ",
                IF FirstToken(sql_stripped) = <<>> THEN <<"U","N","K","N","O","W","N">>
                ELSE FirstToken(sql_stripped)),
            "NON_SELECT_QUERY", None)

\* KeywordFound, were the keyword sought between blanks
KeywordFound_Blanks(keyword, sql_upper) == Contains(<<" ">> \o keyword \o <<" ">>, sql_upper)

\* KeywordFound, were the keyword sought as a substring
KeywordFound_Substring(keyword, sql_upper) == Contains(keyword, sql_upper)

\* re.search(r'\b' + re.escape(keyword) + r'\b', sql_upper)
KeywordFound(keyword, sql_upper) == WordSearch(keyword, sql_upper)

_check_dangerous_keywords(sql_upper) ==
  LET hits == {k \in 1..Len(KeywordOrder) : KeywordFound(KeywordOrder[k], sql_upper)}
  IN IF hits = {} THEN Passed
     ELSE ValidationResult(FALSE,
            Msg("Dangerous SQL keyword detected: ",
                KeywordOrder[CHOOSE k \in hits : \A h \in hits : k <= h]),
            "DANGEROUS_KEYWORD", None)

\* the patterns of the loop that reach a `return' (neither `continue' applies)
InjectionHit(n, sql_upper, sql_original) ==
  LET pattern == SQL_INJECTION_PATTERNS[n]
      pattern_upper == ToUpper(pattern)
  IN /\ Contains(pattern_upper, sql_upper)
     /\ ~(pattern = <<"-","-">> /\ EndsWith(Strip(sql_original), <<"-","-">>))
     /\ (Contains(<<"U","N","I","O","N">>, pattern_upper)
           => Count(<<"U","N","I","O","N">>, sql_upper) > 2)

_check_injection_patterns(sql_upper, sql_original) ==
  LET hits == {n \in 1..Len(SQL_INJECTION_PATTERNS) : InjectionHit(n, sql_upper, sql_original)}
  IN IF hits = {} THEN Passed
     ELSE ValidationResult(FALSE,
            Msg("Potential SQL injection pattern detected: ",
                SQL_INJECTION_PATTERNS[CHOOSE n \in hits : \A h \in hits : n <= h]),
            "INJECTION_DETECTED", None)

Quotes == {"\"", "'"}

\* the character class [\w.]
NameChars == WordChars \cup {"."}

\* the index after the run of characters of cs that begins at index from of s
SkipWhile(s, from, cs) == from + LeadCount(Slice(s, from, Len(s)), cs)

\* the index after the character at index from of s if it is in cs, else from
SkipOne(s, from, cs) == IF from <= Len(s) /\ s[from] \in cs THEN from + 1 ELSE from

\* the group ["']?[\w.]+["']? matched from index q, its name from n1 to e - 1
TableGroup(s, found, q, n1, e) ==
  IF found /\ e > n1
  THEN <<Slice(s, q, SkipOne(s, e, Quotes) - 1), SkipOne(s, e, Quotes)>>
  ELSE <<>>

TableName(s, found, q, n1) == TableGroup(s, found, q, n1, SkipWhile(s, n1, NameChars))

TableQuote(s, found, q) == TableName(s, found, q, SkipOne(s, q, Quotes))

\* one match of  \bKW\s+(["']?[\w.]+["']?)  at index i of s: <<>> if there is none,
\* else << the captured group, the index after the match >>
TableMatchAt(kw, s, i) ==
  TableQuote(s,
             /\ OccursAt(kw, s, i)
             /\ WordBoundary(s, i)
             /\ SkipWhile(s, i + Len(kw), WhiteSpace) > i + Len(kw),
             SkipWhile(s, i + Len(kw), WhiteSpace))

\* the index of the first match at or after index from, 0 if there is none
FirstTableMatch(kw, s, from) ==
  IF \E i \in from..Len(s) : TableMatchAt(kw, s, i) # <<>>
  THEN CHOOSE i \in from..Len(s) :
         /\ TableMatchAt(kw, s, i) # <<>>
         /\ \A k \in from..(i - 1) : TableMatchAt(kw, s, k) = <<>>
  ELSE 0

\* re.findall(pattern, s): the captured groups, left to right, non-overlapping
RECURSIVE FindAllTables(_, _, _)
TablesAfter(kw, s, m) == <<m[1]>> \o FindAllTables(kw, s, m[2])

TablesFrom(kw, s, i) == IF i = 0 THEN <<>> ELSE TablesAfter(kw, s, TableMatchAt(kw, s, i))

FindAllTables(kw, s, from) == TablesFrom(kw, s, FirstTableMatch(kw, s, from))

\* tables_found: the FROM matches, then the JOIN matches
TablesFound(sql_upper) ==
  FindAllTables(<<"F","R","O","M">>, sql_upper, 1) \o FindAllTables(<<"J","O","I","N">>, sql_upper, 1)

\* table.strip('"\'').lower() of every table found
CleanTables(found) == [k \in 1..Len(found) |-> ToLower(StripChars(found[k], Quotes))]

NotAllowed(cleaned, allowed_lower) == SelectSeq(cleaned, LAMBDA t : t \notin allowed_lower)

\* the tables of cleaned_tables that are not allowed, in the order of their first mention
DisallowedTables(self, sql) ==
  NotAllowed(CleanTables(TablesFound(ToUpper(sql))), {ToLower(t) : t \in self.allowed_tables})

\* _check_table_names, were it to reject no table
_check_table_names_Lenient(self, sql) == Passed

\* `for table in cleaned_tables' iterates a set: which disallowed table is met first
\* depends on the hash seed
_check_table_names(self, sql) ==
  LET bad == DisallowedTables(self, sql)
  IN IF bad # <<>> /\ ~self.allow_subqueries
     THEN ValidationResult(FALSE,
            <<"Table not allowed: {table}. Allowed tables: {allowed_tables}",
              IF hashSeed = 0 THEN bad[1] ELSE bad[Len(bad)],
              self.allowed_tables>>,
            "INVALID_TABLE", None)
     ELSE Passed

\* validate, were the keyword scan to run before the multiple-statement check
validate_Reordered(self, sql) ==
  IF sql = None \/ sql = <<>> \/ Strip(sql) = <<>>
  THEN ValidationResult(FALSE, Msg("SQL query is empty", <<>>), "EMPTY_QUERY", None)
  ELSE
  LET sql_normalized == Strip(sql)
      sql_upper == ToUpper(sql_normalized)
      check3 == _check_multiple_statements(sql_normalized)
      check4 == _check_is_select_query(self, sql_upper)
      check5 == _check_dangerous_keywords(sql_upper)
      check6 == _check_injection_patterns(sql_upper, sql_normalized)
      check7 == _check_table_names(self, sql_normalized)
  IN IF Len(sql_normalized) > self.max_query_length
     THEN ValidationResult(FALSE,
            Msg("SQL query exceeds maximum length of {max_query_length} characters", <<>>),
            "SYNTAX_ERROR", None)
     ELSE IF ~check5.is_valid THEN check5
     ELSE IF ~check3.is_valid THEN check3
     ELSE IF ~check4.is_valid THEN check4
     ELSE IF ~check6.is_valid THEN check6
     ELSE IF ~check7.is_valid THEN check7
     ELSE ValidationResult(TRUE, None, NoneType, sql_normalized)

\* validate, were the upper-cased text returned as the sanitized query
validate_Upper(self, sql) ==
  IF sql = None \/ sql = <<>> \/ Strip(sql) = <<>>
  THEN ValidationResult(FALSE, Msg("SQL query is empty", <<>>), "EMPTY_QUERY", None)
  ELSE
  LET sql_normalized == Strip(sql)
      sql_upper == ToUpper(sql_normalized)
      check3 == _check_multiple_statements(sql_normalized)
      check4 == _check_is_select_query(self, sql_upper)
      check5 == _check_dangerous_keywords(sql_upper)
      check6 == _check_injection_patterns(sql_upper, sql_normalized)
      check7 == _check_table_names(self, sql_normalized)
  IN IF Len(sql_normalized) > self.max_query_length
     THEN ValidationResult(FALSE,
            Msg("SQL query exceeds maximum length of {max_query_length} characters", <<>>),
            "SYNTAX_ERROR", None)
     ELSE IF ~check3.is_valid THEN check3
     ELSE IF ~check4.is_valid THEN check4
     ELSE IF ~check5.is_valid THEN check5
     ELSE IF ~check6.is_valid THEN check6
     ELSE IF ~check7.is_valid THEN check7
     ELSE ValidationResult(TRUE, None, NoneType, sql_upper)

\* SQLValidator.validate
validate(self, sql) ==
  IF sql = None \/ sql = <<>> \/ Strip(sql) = <<>>
  THEN ValidationResult(FALSE, Msg("SQL query is empty", <<>>), "EMPTY_QUERY", None)
  ELSE
  LET sql_normalized == Strip(sql)
      sql_upper == ToUpper(sql_normalized)
      check3 == _check_multiple_statements(sql_normalized)
      check4 == _check_is_select_query(self, sql_upper)
      check5 == _check_dangerous_keywords(sql_upper)
      check6 == _check_injection_patterns(sql_upper, sql_normalized)
      check7 == _check_table_names(self, sql_normalized)
  IN IF Len(sql_normalized) > self.max_query_length
     THEN ValidationResult(FALSE,
            Msg("SQL query exceeds maximum length of {max_query_length} characters", <<>>),
            "SYNTAX_ERROR", None)
     ELSE IF ~check3.is_valid THEN check3
     ELSE IF ~check4.is_valid THEN check4
     ELSE IF ~check5.is_valid THEN check5
     ELSE IF ~check6.is_valid THEN check6
     ELSE IF ~check7.is_valid THEN check7
     ELSE ValidationResult(TRUE, None, NoneType, sql_normalized)

(***************************************************************************)
(* Callers of validate: texts and validator configurations                 *)
(***************************************************************************)

\* how a text handed to validate may begin
Heads ==
  { <<>>,
    <<"S","E","L","E","C","T"," ","1">>,
    <<"S","E","L","E","C","T"," ","*">>,
    <<"s","e","l","e","c","t"," ","x">>,
    <<" "," ","S","E","L","E","C","T"," ","a">>,
    <<"W","I","T","H"," ","t"," ","A","S"," ","(">>,
    <<"D","R","O","P"," ","T","A","B","L","E"," ","s","a","l","e","s","_","a","n","a","l","y","t","i","c","s">>,
    <<";">> }

\* how it may go on
Middles ==
  { <<>>,
    <<" ","d","r","o","p"," ">>,
    <<" ","u","p","d","a","t","e","d","_","a","t">>,
    <<" ","F","R","O","M"," ","s","a","l","e","s","_","a","n","a","l","y","t","i","c","s">>,
    <<" ","F","R","O","M"," ","t">>,
    <<";"," ","D","R","O","P"," ","T","A","B","L","E"," ","x">>,
    <<";">>,
    <<"_","D","e","l","e","t","e">>,
    <<"-","-">>,
    <<"\n">> }

\* how it may end
Tails ==
  { <<>>,
    <<";">>,
    <<";",";">>,
    <<" ">>,
    <<"-","-">>,
    <<" ","W","H","E","R","E"," ","1","=","1">>,
    <<" ","D","e","l","e","t","e">>,
    <<"d">>,
    <<"d","-","-">>,
    <<" ","J","O","I","N"," ","u">> }

Inputs == {h \o m \o t : h \in Heads, m \in Middles, t \in Tails}

\* texts validated between two validations of the probe
Interleaved ==
  { <<"S","E","L","E","C","T"," ","1">>,
    <<"D","R","O","P"," ","x">> }

\* max_query_length the validators under test are constructed with
MaxQueryLength == 40

\* validate calls made on one validator
MaxCalls == 3

HashSeeds == {0, 1}

Validators ==
  {NewValidator({}, MaxQueryLength, sub, cte) : sub \in BOOLEAN, cte \in BOOLEAN}

(***************************************************************************)
(* llm_service.py: LLMService                                              *)
(***************************************************************************)

\* the backquote character
Backquote == "BACKQUOTE"

Fence == <<Backquote, Backquote, Backquote>>

FenceSql == Fence \o <<"s","q","l">>

\* FirstSelectStatement, were the match to run to the end of the text
FirstSelectStatement_ToEnd(s) ==
  LET up == ToUpper(s)
      starts == {i \in 1..(Len(s) - 6) :
                   OccursAt(<<"S","E","L","E","C","T">>, up, i) /\ IsSpace(s[i + 6])}
  IN IF starts = {} THEN None
     ELSE Slice(s, CHOOSE k \in starts : \A h \in starts : k <= h, Len(s))

\* re.search(r'(SELECT\s+.*?)(?:;|$)', sql, re.IGNORECASE | re.DOTALL).group(1),
\* None if there is no match: the leftmost SELECT that whitespace follows, up to
\* the first ';' after that whitespace, or to the end of the text
FirstSelectStatement(s) ==
  LET up == ToUpper(s)
      starts == {i \in 1..(Len(s) - 6) :
                   OccursAt(<<"S","E","L","E","C","T">>, up, i) /\ IsSpace(s[i + 6])}
  IN IF starts = {} THEN None
     ELSE LET i == CHOOSE k \in starts : \A h \in starts : k <= h
              ws == LeadCount(Slice(s, i + 6, Len(s)), WhiteSpace)
              semi == FindFrom(<<";">>, s, i + 6 + ws)
          IN Slice(s, i, IF semi = 0 THEN Len(s) ELSE semi - 1)

_clean_sql_response(content) ==
  LET s0 == Strip(content)
      s1 == IF StartsWith(s0, FenceSql) THEN Slice(s0, 7, Len(s0))
            ELSE IF StartsWith(s0, Fence) THEN Slice(s0, 4, Len(s0))
            ELSE s0
      s2 == IF EndsWith(s1, Fence) THEN Slice(s1, 1, Len(s1) - 3) ELSE s1
      s3 == Strip(s2)
  IN IF Contains(<<"S","E","L","E","C","T">>, ToUpper(s3)) /\ FirstSelectStatement(s3) # None
     THEN Strip(FirstSelectStatement(s3))
     ELSE s3

\* usage.completion_tokens and usage.prompt_tokens of a call that used total_tokens
CompletionTokens(total_tokens) == total_tokens \div 2

PromptTokens(total_tokens) == total_tokens - CompletionTokens(total_tokens)

LLMResponse(content, total_tokens, success, error) ==
  [content |-> content, total_tokens |-> total_tokens, success |-> success, error |-> error,
   prompt_tokens |-> PromptTokens(total_tokens),
   completion_tokens |-> CompletionTokens(total_tokens)]

\* LLMResponse.cost_estimate, in units of 10^-8 USD
cost_estimate(response) == response.prompt_tokens * 15 + response.completion_tokens * 60

\* what the call to the text-generation service does: it answers, or the client raises
LLMFailures == {"RateLimitError", "APIConnectionError", "APIError", "OtherException"}

\* LLMService._call_llm: the LLMResponse it returns
_call_llm(outcome) ==
  IF outcome.kind = "ok"
  THEN LLMResponse(outcome.content, outcome.tokens, TRUE, None)
  ELSE IF outcome.kind = "RateLimitError"
  THEN LLMResponse(<<>>, 0, FALSE,
         Msg("Rate limit exceeded. Please try again in a moment.", <<>>))
  ELSE IF outcome.kind = "APIConnectionError"
  THEN LLMResponse(<<>>, 0, FALSE,
         Msg("Unable to connect to AI service. Please check your connection.", <<>>))
  ELSE IF outcome.kind = "APIError"
  THEN LLMResponse(<<>>, 0, FALSE, Msg("AI service error: ", <<"str(e)">>))
  ELSE LLMResponse(<<>>, 0, FALSE,
         Msg("An unexpected error occurred. Please try again.", <<>>))

\* LLMService._call_llm: self.total_tokens_used after the call
TokensUsedAfter(outcome) ==
  IF outcome.kind = "ok" THEN total_tokens_used + outcome.tokens ELSE total_tokens_used

\* LLMService._call_llm: self.total_requests after the call
RequestsAfter(outcome) ==
  IF outcome.kind = "ok" THEN total_requests + 1 ELSE total_requests

\* LLMService.generate_sql: the LLMResponse it returns
generate_sql(outcome) ==
  LET response == _call_llm(outcome)
  IN IF response.success
     THEN [response EXCEPT !.content = _clean_sql_response(response.content)]
     ELSE response

\* LLMService.format_answer: the LLMResponse it returns
format_answer(outcome) == _call_llm(outcome)

(***************************************************************************)
(* chat_service.py: ChatService                                            *)
(***************************************************************************)

\* requests handled by the singleton service, each by one run of ask; runs
\* interleave at their awaits
NRuns == 1

Runs == 1..NRuns

\* rows the database returns for one statement
MaxRows == 2

\* tokens one call to the text-generation service reports
MaxTokens == 2

\* ChatService.__init__: max_results, as interpolated into the statement
max_results == <<"1","0","0">>

\* texts the text-generation service returns for a question
RawDrop == <<"D","R","O","P"," ","T","A","B","L","E"," ","s","a","l","e","s","_","a","n","a","l","y","t","i","c","s">>

RawSelect == <<"S","E","L","E","C","T"," ","1">>

RawFenced == FenceSql \o <<"\n","S","E","L","E","C","T"," ","1",";","\n">> \o Fence

RawStacked == <<"S","E","L","E","C","T"," ","1",";"," ","D","R","O","P"," ","T","A","B","L","E"," ","x">>

RawEmpty == <<>>

RawLimit == <<"s","e","l","e","c","t"," ","a"," ","F","R","O","M"," ","t"," ","W","H","E","R","E"," ","u","p","d","a","t","e","d","_","a","t"," ",">"," ","1"," ","L","I","M","I","T"," ","5">>

RawCte == <<"W","I","T","H"," ","t"," ","A","S"," ","(","S","E","L","E","C","T"," ","1",")"," ","S","E","L","E","C","T"," ","2">>

RawKeyword == <<"S","E","L","E","C","T"," ","d","r","o","p"," ","F","R","O","M"," ","t">>

RawTexts == {RawDrop, RawSelect, RawFenced, RawStacked, RawEmpty, RawLimit, RawCte, RawKeyword}

\* texts with a comment at the end, with LIMIT inside a name, with a LIMIT above
\* max_results
RawComment == <<"S","E","L","E","C","T"," ","1"," ","-","-">>

RawLimitColumn == <<"S","E","L","E","C","T"," ","c","r","e","d","i","t","_","l","i","m","i","t"," ","F","R","O","M"," ","t">>

RawOwnLimit == <<"S","E","L","E","C","T"," ","1"," ","L","I","M","I","T"," ","5","0","0">>

\* texts in which no whitespace follows the first SELECT
RawGlued == <<"S","E","L","E","C","T","*"," ","F","R","O","M"," ","t",";"," ","D","R","O","P"," ","T","A","B","L","E"," ","x">>

RawProse == <<"S","e","l","e","c","t","e","d",":"," ","S","E","L","E","C","T"," ","1"," ",";"," ","x">>

\* a text that ends with SELECT and whitespace
RawDangling == <<"D","R","O","P"," ","T","A","B","L","E"," ","x",";"," ","S","E","L","E","C","T"," ">>

CleanTexts == {RawGlued, RawProse, RawDangling}

LimitTexts == {RawComment, RawLimitColumn, RawOwnLimit}

\* answers the text-generation service returns for a result set
AnswerTexts == {<<"L","L","M"," ","a","n","s","w","e","r">>}

GenOutcomes ==
  {[kind |-> "ok", content |-> c, tokens |-> t] : c \in RawTexts, t \in 1..MaxTokens}
    \cup {[kind |-> k] : k \in LLMFailures}

\* the outcomes of generate_sql for concurrent runs: every text and every failure
AskOutcomes == {outcome \in GenOutcomes : outcome.kind = "ok" => outcome.tokens = MaxTokens}

RunOutcomes ==
  GenOutcomes
    \cup {[kind |-> "ok", content |-> c, tokens |-> MaxTokens] : c \in LimitTexts \cup CleanTexts}

FormatOutcomes ==
  {[kind |-> "ok", content |-> c, tokens |-> t] : c \in AnswerTexts, t \in 1..MaxTokens}
    \cup {[kind |-> k] : k \in LLMFailures}

\* what can be raised into ask at a stage: an Exception, or a BaseException that is
\* not an Exception (asyncio.CancelledError when the caller cancels the task)
Raised == {"Exception", "CancelledError"}

\* CaughtByExcept, were every BaseException caught
CaughtByExcept_Any(exc) == TRUE

\* CaughtByExcept, were the handler missing
CaughtByExcept_Missing(exc) == FALSE

\* `except Exception as e' catches it
CaughtByExcept(exc) == exc = "Exception"

\* `if not sql_response.success'
GenerationFailed(sql_response) == ~sql_response.success

\* ValidationRejects, were the verdict ignored
ValidationRejects_Ignored(result) == FALSE

\* `if not validation_result.is_valid'
ValidationRejects(result) == ~result.is_valid

\* `validation_result.sanitized_sql or run_sql'
SanitizedOr(result, text) ==
  IF result.sanitized_sql = None \/ result.sanitized_sql = <<>> THEN text
  ELSE result.sanitized_sql

\* ChatService._execute_query: the statement handed to session.execute
ExecStatement(text) ==
  IF ~Contains(<<"L","I","M","I","T">>, ToUpper(text))
  THEN RStripChars(text, {";"}) \o <<" ","L","I","M","I","T"," ">> \o max_results
  ELSE text

DigitChars == <<"0","1","2","3","4","5","6","7","8","9">>

DigitValue(c) == (CHOOSE n \in 1..10 : DigitChars[n] = c) - 1

RECURSIVE ToInt(_)
\* the number a text of decimal digits denotes
ToInt(digits) ==
  IF digits = <<>> THEN 0
  ELSE 10 * ToInt(Slice(digits, 1, Len(digits) - 1)) + DigitValue(digits[Len(digits)])

\* ChatService.__init__: max_results, as a number
MaxResults == ToInt(max_results)

RECURSIVE Uncommented(_)
\* the statement as the database reads it: a `--' starts a comment that runs to
\* the end of the line
Uncommented(stmt) ==
  IF FindFrom(<<"-","-">>, stmt, 1) = 0 THEN stmt
  ELSE IF FindFrom(<<"\n">>, stmt, FindFrom(<<"-","-">>, stmt, 1)) = 0
  THEN Slice(stmt, 1, FindFrom(<<"-","-">>, stmt, 1) - 1)
  ELSE Slice(stmt, 1, FindFrom(<<"-","-">>, stmt, 1) - 1)
         \o Uncommented(Slice(stmt, FindFrom(<<"\n">>, stmt, FindFrom(<<"-","-">>, stmt, 1)),
                              Len(stmt)))

\* the LIMIT clause that ends the text t, as the set of its row limit: empty if
\* t does not end with the word LIMIT, whitespace and a number
TrailingLimit(t, digits, before) ==
  IF /\ digits > 0
     /\ TrailCount(before, WhiteSpace) > 0
     /\ EndsWith(ToUpper(RStripChars(before, WhiteSpace)), <<"L","I","M","I","T">>)
     /\ \/ Len(RStripChars(before, WhiteSpace)) = 5
        \/ ~IsWordChar(before[Len(RStripChars(before, WhiteSpace)) - 5])
  THEN {ToInt(Slice(t, Len(t) - digits + 1, Len(t)))}
  ELSE {}

LimitOfText(t) == TrailingLimit(t, TrailCount(t, Digits), Slice(t, 1, Len(t) - TrailCount(t, Digits)))

\* the row limit in force when the database runs stmt
LimitInForce(stmt) == LimitOfText(RStripChars(Uncommented(stmt), WhiteSpace \cup {";"}))

\* result.fetchall(): the rows the database returns for stmt when matching rows
\* satisfy it
Fetched(stmt, matching) ==
  IF \E n \in LimitInForce(stmt) : n < matching
  THEN CHOOSE n \in LimitInForce(stmt) : TRUE
  ELSE matching

\* _simple_format: `results[:10]'
ListedRows == 10

\* rows that satisfy a statement: few, about as many as the fallback lists, more than
\* max_results
ResultSizes ==
  (0..MaxRows) \cup {ListedRows, ListedRows + 1, ListedRows + MaxRows, MaxResults + MaxRows}

\* the fields a `return ChatResponse(...)' does not pass keep their default, 0
ChatResponse(status, answer, query, row_count, error, tokens_used) ==
  [status |-> status, answer |-> answer, sql |-> query, row_count |-> row_count,
   error |-> error, tokens_used |-> tokens_used,
   sql_generation_time_ms |-> 0, sql_execution_time_ms |-> 0,
   answer_formatting_time_ms |-> 0, total_time_ms |-> 0, estimated_cost_usd |-> 0]

\* clock ticks in one millisecond
TicksPerMs == 2

\* ticks the clock advances during one run
MaxClock == 4

\* ElapsedMs, were the duration rounded up to the next millisecond
ElapsedMs_RoundedUp(since) == (clock - since + TicksPerMs - 1) \div TicksPerMs

\* int((time.time() - since) * 1000)
ElapsedMs(since) == (clock - since) \div TicksPerMs

\* the locals of ask that hold clock readings and durations; -1 until assigned
NoTiming ==
  [start_time |-> -1, sql_start |-> -1, sql_gen_time |-> -1,
   exec_start |-> -1, sql_exec_time |-> -1, format_start |-> -1]

\* no stage of the run has ended: measured maps the stages that ended to how long
\* each took
NoneMeasured == <<>>

\* no text-generation call of the run has been sent
NoRequests == [generate_sql |-> 0, format_answer |-> 0]

\* LLMConfig.max_retries, handed to AsyncOpenAI: how often the client re-sends a request
max_retries == 2

\* the run has not ended
NoResponse == ChatResponse("NONE", None, None, 0, None, 0)

\* the run ended with exc propagating out of ask
Propagated(exc) == ChatResponse(exc, None, None, 0, None, 0)

NoResultsAnswer ==
  Msg("I didn't find any data matching your query. This could mean: ... Try broadening your search or changing the filters.", <<>>)

\* _simple_format, were every row listed and no notice added
_simple_format_All(rows) ==
  Msg("\\n.join(lines)",
      <<Msg("Found {len(results)} results:\\n", rows)>>
        \o [i \in 1..rows |-> Msg("{i}. {col}: {val}, ...", i)])

\* ChatService._simple_format for a result set of rows rows: the lines it joins,
\* the line of the i-th row standing for its `field: value' pairs
_simple_format(rows) ==
  IF rows = 0 THEN Msg("No results found.", <<>>)
  ELSE Msg("\\n.join(lines)",
           <<Msg("Found {len(results)} results:\\n", rows)>>
             \o [i \in 1..(IF rows < ListedRows THEN rows ELSE ListedRows) |->
                   Msg("{i}. {col}: {val}, ...", i)]
             \o (IF rows > ListedRows
                 THEN <<Msg("\\n... and {len(results) - 10} more rows", rows - ListedRows)>>
                 ELSE <<>>))

callerVars == <<probe, input, verdict, firstVerdict, calls, probed>>

objVars == <<heap, instances, own, schema, lookup>>

statsVars == <<total_questions, successful_questions, failed_questions,
               total_requests, total_tokens_used>>

runVars == <<pc, candidate, validation_result, run_sql, dispatched, results,
             run_tokens, trace, resp>>

meterVars == <<clock, timing, run_cost, measured, requests, llm_calls, outcomes, generated>>

vars == <<hashSeed, validator, callerVars, statsVars, runVars, meterVars, objVars>>

\* the stage of run r ended now, having started at since
StageEnded(r, stage, since) == [measured EXCEPT ![r] = (stage :> ElapsedMs(since)) @@ @]

Append1(f, r, x) == [f EXCEPT ![r] = Append(@, x)]

Set1(f, r, x) == [f EXCEPT ![r] = x]

\* the run r returns response: `return ChatResponse(...)'
ReturnResponse(r, response) ==
  /\ resp' = Set1(resp, r, response)
  /\ pc' = Set1(pc, r, "done")

\* exc propagates out of the coroutine
Propagate(r, exc) ==
  /\ resp' = Set1(resp, r, Propagated(exc))
  /\ pc' = Set1(pc, r, "done")
  /\ UNCHANGED <<statsVars, candidate, validation_result, run_sql, dispatched, results,
                 run_tokens, trace, timing, run_cost, measured, llm_calls>>

\* ask, lines 183-197: up to the await of generate_sql
AskStart(r) ==
  /\ pc[r] = "idle"
  /\ total_questions' = total_questions + 1
  /\ run_tokens' = Set1(run_tokens, r, 0)
  /\ run_cost' = Set1(run_cost, r, 0)
  /\ timing' = Set1(timing, r, [NoTiming EXCEPT !.start_time = clock, !.sql_start = clock])
  /\ requests' = [requests EXCEPT ![r].generate_sql = 1]
  /\ outcomes' = Set1(outcomes, r, <<>>)
  /\ generated' = Set1(generated, r, <<>>)
  /\ trace' = Set1(trace, r, <<"generate_sql">>)
  /\ pc' = Set1(pc, r, "generating")
  /\ UNCHANGED <<successful_questions, failed_questions, total_requests, total_tokens_used,
                 candidate, validation_result, run_sql, dispatched, results, resp>>
  /\ UNCHANGED <<hashSeed, validator, callerVars, objVars, clock, measured, llm_calls>>

\* ask, lines 197-254: generate_sql returns; validation; up to the await of _execute_query
GenerateReturns(r, outcome) ==
  /\ pc[r] = "generating"
  /\ total_tokens_used' = TokensUsedAfter(outcome)
  /\ total_requests' = RequestsAfter(outcome)
  /\ llm_calls' = llm_calls + 1
  /\ outcomes' = Append1(outcomes, r, IF outcome.kind = "ok" THEN "ok" ELSE "failed")
  /\ generated' = IF outcome.kind = "ok" THEN Set1(generated, r, outcome.content) ELSE generated
  /\ measured' = StageEnded(r, "generation", timing[r].sql_start)
  /\ LET sql_response == generate_sql(outcome)
         result == validate(validator, sql_response.content)
         tokens == run_tokens[r] + sql_response.total_tokens
         cost == run_cost[r] + cost_estimate(sql_response)
     IN IF GenerationFailed(sql_response)
        THEN /\ failed_questions' = failed_questions + 1
             /\ ReturnResponse(r,
                  [ChatResponse("SQL_GENERATION_FAILED",
                     Msg("I couldn't understand your question. ",
                         IF sql_response.error = None
                         THEN Msg("Please try rephrasing.", <<>>) ELSE sql_response.error),
                     None, 0, sql_response.error, 0)
                   EXCEPT !.sql_generation_time_ms = ElapsedMs(timing[r].sql_start),
                          !.total_time_ms = ElapsedMs(timing[r].start_time)])
             /\ UNCHANGED <<successful_questions, candidate, validation_result, run_sql,
                            dispatched, results, run_tokens, run_cost, trace, timing>>
        ELSE /\ candidate' = Set1(candidate, r, sql_response.content)
             /\ run_tokens' = Set1(run_tokens, r, tokens)
             /\ run_cost' = Set1(run_cost, r, cost)
             /\ validation_result' = Set1(validation_result, r, result)
             /\ IF ValidationRejects(result)
                THEN /\ failed_questions' = failed_questions + 1
                     /\ trace' = Append1(trace, r, "validate")
                     /\ timing' = [timing EXCEPT ![r].sql_gen_time = ElapsedMs(timing[r].sql_start)]
                     /\ ReturnResponse(r,
                          [ChatResponse("SQL_VALIDATION_FAILED",
                             Msg("I generated a query but it didn't pass safety checks. Please try a different question.", <<>>),
                             sql_response.content, 0, result.error_message, tokens)
                           EXCEPT !.sql_generation_time_ms = ElapsedMs(timing[r].sql_start),
                                  !.total_time_ms = ElapsedMs(timing[r].start_time),
                                  !.estimated_cost_usd = cost])
                     /\ UNCHANGED <<successful_questions, run_sql, dispatched, results>>
                ELSE /\ run_sql' = Set1(run_sql, r, SanitizedOr(result, sql_response.content))
                     /\ dispatched' = Set1(dispatched, r, ExecStatement(run_sql'[r]))
                     /\ trace' = [trace EXCEPT ![r] = @ \o <<"validate", "_execute_query">>]
                     /\ timing' = [timing EXCEPT ![r].sql_gen_time = ElapsedMs(timing[r].sql_start),
                                                 ![r].exec_start = clock]
                     /\ pc' = Set1(pc, r, "executing")
                     /\ UNCHANGED <<successful_questions, failed_questions, results, resp>>
  /\ UNCHANGED <<total_questions, hashSeed, validator, callerVars, objVars, clock, requests>>

\* ask, lines 213-221: generate_sql raises
GenerateRaises(r, exc) ==
  /\ pc[r] = "generating"
  /\ IF CaughtByExcept(exc)
     THEN /\ failed_questions' = failed_questions + 1
          /\ measured' = StageEnded(r, "generation", timing[r].sql_start)
          /\ ReturnResponse(r,
               [ChatResponse("SQL_GENERATION_FAILED",
                  Msg("Sorry, I encountered an error while processing your question. Please try again.", <<>>),
                  None, 0, <<"str(e)">>, 0)
                EXCEPT !.total_time_ms = ElapsedMs(timing[r].start_time)])
          /\ UNCHANGED <<total_questions, successful_questions, total_requests,
                         total_tokens_used, candidate, validation_result, run_sql, dispatched,
                         results, run_tokens, trace, timing, run_cost, llm_calls>>
     ELSE Propagate(r, exc)
  /\ outcomes' = Append1(outcomes, r, exc)
  /\ UNCHANGED generated
  /\ UNCHANGED <<hashSeed, validator, callerVars, objVars, clock, requests>>

\* NoRows, were the test never true
NoRows_Never(row_count) == FALSE

\* `if row_count == 0'
NoRows(row_count) == row_count = 0

\* ask, lines 254-305: _execute_query returns; up to the await of format_answer
ExecuteReturns(r, matching) ==
  /\ pc[r] = "executing"
  /\ results' = Set1(results, r, Fetched(dispatched[r], matching))
  /\ outcomes' = Append1(outcomes, r, "ok")
  /\ UNCHANGED generated
  /\ measured' = StageEnded(r, "execution", timing[r].exec_start)
  /\ IF NoRows(results'[r])
     THEN /\ successful_questions' = successful_questions + 1
          /\ timing' = [timing EXCEPT ![r].sql_exec_time = ElapsedMs(timing[r].exec_start)]
          /\ ReturnResponse(r,
               [ChatResponse("NO_RESULTS", NoResultsAnswer, run_sql[r], 0, None, run_tokens[r])
                EXCEPT !.sql_generation_time_ms = timing[r].sql_gen_time,
                       !.sql_execution_time_ms = ElapsedMs(timing[r].exec_start),
                       !.total_time_ms = ElapsedMs(timing[r].start_time),
                       !.estimated_cost_usd = run_cost[r]])
          /\ UNCHANGED <<trace, requests>>
     ELSE /\ trace' = Append1(trace, r, "format_answer")
          /\ timing' = [timing EXCEPT ![r].sql_exec_time = ElapsedMs(timing[r].exec_start),
                                      ![r].format_start = clock]
          /\ requests' = [requests EXCEPT ![r].format_answer = 1]
          /\ pc' = Set1(pc, r, "formatting")
          /\ UNCHANGED <<successful_questions, resp>>
  /\ UNCHANGED <<total_questions, failed_questions, total_requests, total_tokens_used,
                 candidate, validation_result, run_sql, dispatched, run_tokens>>
  /\ UNCHANGED <<hashSeed, validator, callerVars, objVars, clock, run_cost, llm_calls>>

\* ask, lines 257-270: _execute_query raises
ExecuteRaises(r, exc) ==
  /\ pc[r] = "executing"
  /\ IF CaughtByExcept(exc)
     THEN /\ failed_questions' = failed_questions + 1
          /\ measured' = StageEnded(r, "execution", timing[r].exec_start)
          /\ ReturnResponse(r,
               [ChatResponse("SQL_EXECUTION_FAILED",
                  Msg("I couldn't retrieve the data. The query might be invalid or the data might not exist.", <<>>),
                  run_sql[r], 0, <<"str(e)">>, run_tokens[r])
                EXCEPT !.sql_generation_time_ms = timing[r].sql_gen_time,
                       !.sql_execution_time_ms = ElapsedMs(timing[r].exec_start),
                       !.total_time_ms = ElapsedMs(timing[r].start_time),
                       !.estimated_cost_usd = run_cost[r]])
          /\ UNCHANGED <<total_questions, successful_questions, total_requests,
                         total_tokens_used, candidate, validation_result, run_sql, dispatched,
                         results, run_tokens, trace, timing, run_cost, llm_calls>>
     ELSE Propagate(r, exc)
  /\ outcomes' = Append1(outcomes, r, exc)
  /\ UNCHANGED generated
  /\ UNCHANGED <<hashSeed, validator, callerVars, objVars, clock, requests>>

\* the SUCCESS response of ask, lines 324-342
SuccessResponse(r, answer, tokens, cost) ==
  [ChatResponse("SUCCESS", answer, run_sql[r], results[r], None, tokens)
   EXCEPT !.sql_generation_time_ms = timing[r].sql_gen_time,
          !.sql_execution_time_ms = timing[r].sql_exec_time,
          !.answer_formatting_time_ms = ElapsedMs(timing[r].format_start),
          !.total_time_ms = ElapsedMs(timing[r].start_time),
          !.estimated_cost_usd = cost]

\* ask, lines 305-342: format_answer returns
FormatReturns(r, outcome) ==
  /\ pc[r] = "formatting"
  /\ total_tokens_used' = TokensUsedAfter(outcome)
  /\ total_requests' = RequestsAfter(outcome)
  /\ llm_calls' = llm_calls + 1
  /\ outcomes' = Append1(outcomes, r, IF outcome.kind = "ok" THEN "ok" ELSE "failed")
  /\ UNCHANGED generated
  /\ measured' = StageEnded(r, "formatting", timing[r].format_start)
  /\ LET answer_response == format_answer(outcome)
         tokens == IF answer_response.success
                   THEN run_tokens[r] + answer_response.total_tokens ELSE run_tokens[r]
         cost == IF answer_response.success
                 THEN run_cost[r] + cost_estimate(answer_response) ELSE run_cost[r]
     IN /\ run_tokens' = Set1(run_tokens, r, tokens)
        /\ run_cost' = Set1(run_cost, r, cost)
        /\ trace' = IF answer_response.success THEN trace
                    ELSE Append1(trace, r, "_simple_format")
        /\ ReturnResponse(r, SuccessResponse(r,
             IF answer_response.success THEN answer_response.content
             ELSE _simple_format(results[r]),
             tokens, cost))
  /\ successful_questions' = successful_questions + 1
  /\ UNCHANGED <<total_questions, failed_questions, candidate, validation_result, run_sql,
                 dispatched, results>>
  /\ UNCHANGED <<hashSeed, validator, callerVars, objVars, clock, timing, requests>>

\* ask, lines 319-342: format_answer raises
FormatRaises(r, exc) ==
  /\ pc[r] = "formatting"
  /\ IF CaughtByExcept(exc)
     THEN /\ trace' = Append1(trace, r, "_simple_format")
          /\ successful_questions' = successful_questions + 1
          /\ measured' = StageEnded(r, "formatting", timing[r].format_start)
          /\ ReturnResponse(r, SuccessResponse(r, _simple_format(results[r]),
                                               run_tokens[r], run_cost[r]))
          /\ UNCHANGED <<total_questions, failed_questions, total_requests,
                         total_tokens_used, candidate, validation_result, run_sql, dispatched,
                         results, run_tokens, timing, run_cost, llm_calls>>
     ELSE Propagate(r, exc)
  /\ outcomes' = Append1(outcomes, r, exc)
  /\ UNCHANGED generated
  /\ UNCHANGED <<hashSeed, validator, callerVars, objVars, clock, requests>>

\* time passes while the runs await
Tick ==
  /\ clock < MaxClock
  /\ clock' = clock + 1
  /\ UNCHANGED <<hashSeed, validator, callerVars, objVars, statsVars, runVars,
                 timing, run_cost, measured, requests, llm_calls, outcomes, generated>>

\* the AsyncOpenAI client of run r's pending call sends the request again after a
\* failure it retries, at most max_retries times
Resend(r) ==
  /\ pc[r] \in {"generating", "formatting"}
  /\ LET call == IF pc[r] = "generating" THEN "generate_sql" ELSE "format_answer"
     IN /\ requests[r][call] < 1 + max_retries
        /\ requests' = [requests EXCEPT ![r][call] = @ + 1]
  /\ UNCHANGED <<hashSeed, validator, callerVars, objVars, statsVars, runVars,
                 clock, timing, run_cost, measured, llm_calls, outcomes, generated>>

\* ChatService.reset_stats, with LLMService.reset_usage_stats
reset_stats ==
  /\ total_questions' = 0
  /\ successful_questions' = 0
  /\ failed_questions' = 0
  /\ total_tokens_used' = 0
  /\ total_requests' = 0
  /\ llm_calls' = 0
  /\ UNCHANGED <<hashSeed, validator, callerVars, objVars, runVars,
                 clock, timing, run_cost, measured, requests, outcomes, generated>>

\* SemanticSchema.load has not been called
NoSchema == [loaded |-> FALSE]

\* no resolver lookup yet
NoLookup == [method |-> "none", arg |-> None, result |-> None]

\* the validator instances 1 and 2
Instances == {1, 2}

\* the set objects and instances after SQLValidator() twice: `allowed_tables or
\* ALLOWED_TABLES' binds self.allowed_tables to the module-level set itself
DefaultObjects ==
  /\ heap = [ref \in {0} \cup Instances |-> IF ref = 0 THEN ALLOWED_TABLES ELSE {}]
  /\ instances = [i \in Instances |-> [allowed_tables |-> 0, allow_subqueries |-> TRUE]]
  /\ own = [i \in Instances |-> ALLOWED_TABLES]
  /\ schema = NoSchema
  /\ lookup = NoLookup

\* ChatService.__init__ with the defaults, as get_chat_service constructs it
InitAsk ==
  /\ hashSeed \in HashSeeds
  /\ validator = NewValidator({}, DefaultMaxQueryLength, TRUE, TRUE)
  /\ probe = None
  /\ input = None
  /\ verdict = NoVerdict
  /\ firstVerdict = NoVerdict
  /\ calls = 0
  /\ probed = 0
  /\ total_questions = 0
  /\ successful_questions = 0
  /\ failed_questions = 0
  /\ total_requests = 0
  /\ total_tokens_used = 0
  /\ pc = [r \in Runs |-> "idle"]
  /\ candidate = [r \in Runs |-> None]
  /\ validation_result = [r \in Runs |-> NoVerdict]
  /\ run_sql = [r \in Runs |-> None]
  /\ dispatched = [r \in Runs |-> None]
  /\ results = [r \in Runs |-> 0]
  /\ run_tokens = [r \in Runs |-> 0]
  /\ trace = [r \in Runs |-> <<>>]
  /\ resp = [r \in Runs |-> NoResponse]
  /\ clock = 0
  /\ timing = [r \in Runs |-> NoTiming]
  /\ run_cost = [r \in Runs |-> 0]
  /\ measured = [r \in Runs |-> NoneMeasured]
  /\ requests = [r \in Runs |-> NoRequests]
  /\ llm_calls = 0
  /\ outcomes = [r \in Runs |-> <<>>]
  /\ generated = [r \in Runs |-> <<>>]

Init == InitAsk /\ DefaultObjects

Next ==
  \/ \E r \in Runs : AskStart(r)
  \/ \E r \in Runs, outcome \in AskOutcomes : GenerateReturns(r, outcome)
  \/ \E r \in Runs, exc \in Raised : GenerateRaises(r, exc)
  \/ \E r \in Runs, matching \in 0..MaxRows : ExecuteReturns(r, matching)
  \/ \E r \in Runs, exc \in Raised : ExecuteRaises(r, exc)
  \/ \E r \in Runs, outcome \in FormatOutcomes : FormatReturns(r, outcome)
  \/ \E r \in Runs, exc \in Raised : FormatRaises(r, exc)

Spec == Init /\ [][Next]_vars

\* the runs of ask, and the operator resetting the statistics at any moment
NextReset == Next \/ reset_stats

SpecReset == Init /\ [][NextReset]_vars

\* one run of ask, with time passing while it awaits
NextTimed ==
  \/ Tick
  \/ AskStart(1)
  \/ \E outcome \in GenOutcomes : GenerateReturns(1, outcome)
  \/ \E exc \in Raised : GenerateRaises(1, exc)
  \/ \E matching \in 0..MaxRows : ExecuteReturns(1, matching)
  \/ \E exc \in Raised : ExecuteRaises(1, exc)
  \/ \E outcome \in FormatOutcomes : FormatReturns(1, outcome)
  \/ \E exc \in Raised : FormatRaises(1, exc)

SpecTimed == Init /\ [][NextTimed]_vars

\* one run of ask over the wider inputs, with the client re-sending requests
NextRun ==
  \/ AskStart(1)
  \/ Resend(1)
  \/ \E outcome \in RunOutcomes : GenerateReturns(1, outcome)
  \/ \E exc \in Raised : GenerateRaises(1, exc)
  \/ \E matching \in ResultSizes : ExecuteReturns(1, matching)
  \/ \E exc \in Raised : ExecuteRaises(1, exc)
  \/ \E outcome \in FormatOutcomes : FormatReturns(1, outcome)
  \/ \E exc \in Raised : FormatRaises(1, exc)

SpecRun == Init /\ [][NextRun]_vars

\* the pending generate_sql of run 1 ends: the client's timeout bounds each request
\* and max_retries bounds the requests
GenerationEnds ==
  \/ \E outcome \in RunOutcomes : GenerateReturns(1, outcome)
  \/ \E exc \in Raised : GenerateRaises(1, exc)

\* the pending format_answer of run 1 ends, for the same reason
FormattingEnds ==
  \/ \E outcome \in FormatOutcomes : FormatReturns(1, outcome)
  \/ \E exc \in Raised : FormatRaises(1, exc)

\* one run of ask that starts and whose text-generation calls end; session.execute
\* is given no timeout, so nothing makes the database read end
SpecLive ==
  /\ Init
  /\ [][NextRun]_vars
  /\ WF_pc(AskStart(1))
  /\ WF_pc(GenerationEnds)
  /\ WF_pc(FormattingEnds)

(***************************************************************************)
(* Callers of validate: one validator, validated texts                     *)
(***************************************************************************)

InitValidator ==
  /\ DefaultObjects
  /\ hashSeed \in HashSeeds
  /\ validator \in Validators
  /\ probe \in Inputs
  /\ input = None
  /\ verdict = NoVerdict
  /\ firstVerdict = NoVerdict
  /\ calls = 0
  /\ probed = 0
  /\ total_questions = 0
  /\ successful_questions = 0
  /\ failed_questions = 0
  /\ total_requests = 0
  /\ total_tokens_used = 0
  /\ pc = [r \in Runs |-> "idle"]
  /\ candidate = [r \in Runs |-> None]
  /\ validation_result = [r \in Runs |-> NoVerdict]
  /\ run_sql = [r \in Runs |-> None]
  /\ dispatched = [r \in Runs |-> None]
  /\ results = [r \in Runs |-> 0]
  /\ run_tokens = [r \in Runs |-> 0]
  /\ trace = [r \in Runs |-> <<>>]
  /\ resp = [r \in Runs |-> NoResponse]
  /\ clock = 0
  /\ timing = [r \in Runs |-> NoTiming]
  /\ run_cost = [r \in Runs |-> 0]
  /\ measured = [r \in Runs |-> NoneMeasured]
  /\ requests = [r \in Runs |-> NoRequests]
  /\ llm_calls = 0
  /\ outcomes = [r \in Runs |-> <<>>]
  /\ generated = [r \in Runs |-> <<>>]

\* result = validator.validate(text)
CallValidate(text) ==
  /\ calls < MaxCalls
  /\ calls' = calls + 1
  /\ input' = text
  /\ verdict' = validate(validator, text)
  /\ firstVerdict' = IF text = probe /\ probed = 0 THEN verdict' ELSE firstVerdict
  /\ probed' = IF text = probe THEN probed + 1 ELSE probed
  /\ UNCHANGED <<hashSeed, validator, probe, statsVars, runVars, meterVars, objVars>>

ValidateProbe == CallValidate(probe)

ValidateOther == \E text \in Interleaved : text # probe /\ CallValidate(text)

\* the first validate call of a validator
ValidateOnce == calls = 0 /\ ValidateProbe

\* one validator, one text, validated once
NextValidator == ValidateOnce

SpecValidator == InitValidator /\ [][NextValidator]_vars

\* the texts that are validated between validations of other texts
Reprobed == {h \o m \o t : h \in Heads, m \in Middles, t \in {<<>>, <<" ","D","e","l","e","t","e">>}}

InitRevalidate == InitValidator /\ probe \in Reprobed

NextRevalidate == ValidateProbe \/ ValidateOther

SpecRevalidate == InitRevalidate /\ [][NextRevalidate]_vars

(***************************************************************************)
(* Several SQLValidator instances and their allowlists                     *)
(***************************************************************************)

\* table names passed to add_allowed_table and remove_allowed_table
TableArgs == {<<"T">>, <<"s","t","o","c","k","_","g","w">>}

\* the sets callers pass as allowed_tables: an empty set is falsy, so the
\* constructor then takes ALLOWED_TABLES
PassedSets == {{}, {<<"t">>}}

\* SQLValidator(allowed_tables=passed, allow_subqueries=sub) for instance i
Constructed(i, passed, sub) ==
  [allowed_tables |-> IF passed = {} THEN 0 ELSE i, allow_subqueries |-> sub]

\* the instance i as validate reads it
InstanceOf(i) ==
  [allowed_tables |-> heap[instances[i].allowed_tables],
   max_query_length |-> DefaultMaxQueryLength,
   allow_subqueries |-> instances[i].allow_subqueries,
   allow_cte |-> TRUE]

\* SQLValidator.add_allowed_table: self.allowed_tables.add(table_name.lower())
add_allowed_table(i, table_name) ==
  /\ heap' = [heap EXCEPT ![instances[i].allowed_tables] = @ \cup {ToLower(table_name)}]
  /\ own' = [own EXCEPT ![i] = @ \cup {ToLower(table_name)}]
  /\ UNCHANGED <<hashSeed, validator, callerVars, statsVars, runVars, meterVars, instances,
                 schema, lookup>>

\* SQLValidator.remove_allowed_table: self.allowed_tables.discard(table_name.lower())
remove_allowed_table(i, table_name) ==
  /\ heap' = [heap EXCEPT ![instances[i].allowed_tables] = @ \ {ToLower(table_name)}]
  /\ own' = [own EXCEPT ![i] = @ \ {ToLower(table_name)}]
  /\ UNCHANGED <<hashSeed, validator, callerVars, statsVars, runVars, meterVars, instances,
                 schema, lookup>>

\* two instances constructed with or without a set of their own
InitInstances ==
  /\ InitAsk
  /\ heap = [ref \in {0} \cup Instances |-> IF ref = 0 THEN ALLOWED_TABLES ELSE {<<"t">>}]
  /\ instances \in [Instances -> {[allowed_tables |-> ref, allow_subqueries |-> sub] :
                                    ref \in {0} \cup Instances, sub \in BOOLEAN}]
  /\ \A i \in Instances :
       \E passed \in PassedSets :
         instances[i] = Constructed(i, passed, instances[i].allow_subqueries)
  /\ own = [i \in Instances |-> heap[instances[i].allowed_tables]]
  /\ schema = NoSchema
  /\ lookup = NoLookup

NextInstances ==
  \/ \E i \in Instances, t \in TableArgs : add_allowed_table(i, t)
  \/ \E i \in Instances, t \in TableArgs : remove_allowed_table(i, t)

SpecInstances == InitInstances /\ [][NextInstances]_vars

(***************************************************************************)
(* schema_loader.py: SemanticSchema                                        *)
(***************************************************************************)

\* str.title(): a letter that follows a letter is lowered, any other letter raised
Title(s) ==
  [i \in 1..Len(s) |->
     IF i > 1 /\ (s[i - 1] \in LowerSet \/ s[i - 1] \in UpperSet)
     THEN LowerChar(s[i]) ELSE UpperChar(s[i])]

\* the dict that the assignments cache[key.lower()] = value make, pairs giving the
\* <<key, value>> of each assignment in order: a later assignment to a key replaces
\* the earlier one
CacheOf(pairs) ==
  [k \in {ToLower(pairs[n][1]) : n \in 1..Len(pairs)} |->
     pairs[CHOOSE n \in 1..Len(pairs) :
             /\ ToLower(pairs[n][1]) = k
             /\ \A m \in 1..Len(pairs) : ToLower(pairs[m][1]) = k => m <= n][2]]

RECURSIVE Flatten(_)
Flatten(seqs) == IF seqs = <<>> THEN <<>> ELSE Head(seqs) \o Flatten(Tail(seqs))

\* _build_caches: the assignments to _alias_to_column
ColumnPairs(doc) ==
  Flatten([c \in 1..Len(doc.columns) |->
             [a \in 1..Len(doc.columns[c].aliases) |->
                <<doc.columns[c].aliases[a], doc.columns[c].name>>]
               \o << <<doc.columns[c].name, doc.columns[c].name>> >>])

\* _build_caches: the assignments to _product_alias_to_key
ProductPairs(doc) ==
  Flatten([c \in 1..Len(doc.product_categories) |->
             IF StartsWith(doc.product_categories[c].key, <<"_">>) THEN <<>>
             ELSE << <<doc.product_categories[c].business_term, doc.product_categories[c].key>> >>
                    \o [a \in 1..Len(doc.product_categories[c].aliases) |->
                          <<doc.product_categories[c].aliases[a], doc.product_categories[c].key>>]])

\* _build_caches: the assignments to _state_alias_to_value
StatePairs(doc) ==
  Flatten([c \in 1..Len(doc.indian_states) |->
             IF StartsWith(doc.indian_states[c].key, <<"_">>) THEN <<>>
             ELSE << <<[i \in 1..Len(doc.indian_states[c].key) |->
                          IF doc.indian_states[c].key[i] = "_" THEN " "
                          ELSE doc.indian_states[c].key[i]],
                       doc.indian_states[c].value>>,
                     <<doc.indian_states[c].value, doc.indian_states[c].value>> >>
                    \o [a \in 1..Len(doc.indian_states[c].aliases) |->
                          <<doc.indian_states[c].aliases[a], doc.indian_states[c].value>>]])

\* _build_caches: the assignments to _derived_alias_to_expression
DerivedPairs(doc) ==
  Flatten([c \in 1..Len(doc.derived_measures) |->
             << <<doc.derived_measures[c].name, doc.derived_measures[c].expression>> >>
               \o [a \in 1..Len(doc.derived_measures[c].aliases) |->
                     <<doc.derived_measures[c].aliases[a], doc.derived_measures[c].expression>>]])

\* SemanticSchema.__init__ with _build_caches: it raises nothing
SemanticSchema(doc) ==
  [loaded |-> TRUE,
   raw |-> doc,
   _alias_to_column |-> CacheOf(ColumnPairs(doc)),
   _product_alias_to_key |-> CacheOf(ProductPairs(doc)),
   _state_alias_to_value |-> CacheOf(StatePairs(doc)),
   _derived_alias_to_expression |-> CacheOf(DerivedPairs(doc))]

\* dict.get(key, default)
Get(cache, key, default) == IF key \in DOMAIN cache THEN cache[key] ELSE default

get_column_name(self, alias_or_name) == Get(self._alias_to_column, ToLower(alias_or_name), None)

\* the columns of the document named name, and which of them is read
ColumnsNamed(self, name) == SelectSeq(self.raw.columns, LAMBDA c : c.name = name)

get_measure_sql(self, measure_name) ==
  IF ToLower(measure_name) \in DOMAIN self._derived_alias_to_expression
  THEN self._derived_alias_to_expression[ToLower(measure_name)]
  ELSE IF /\ get_column_name(self, measure_name) # None
          /\ \E n \in 1..Len(self.raw.measures) :
               self.raw.measures[n] = get_column_name(self, measure_name)
  THEN ToUpper(ColumnsNamed(self, get_column_name(self, measure_name))
                 [Len(ColumnsNamed(self, get_column_name(self, measure_name)))].aggregation)
         \o <<"(">> \o get_column_name(self, measure_name) \o <<")">>
  ELSE None

\* the product categories of the document with the key key
CategoriesKeyed(self, key) == SelectSeq(self.raw.product_categories, LAMBDA c : c.key = key)

get_product_category_sql(self, category_term) ==
  IF Get(self._product_alias_to_key, Strip(ToLower(category_term)), None) = None THEN None
  ELSE CategoriesKeyed(self, self._product_alias_to_key[Strip(ToLower(category_term))])
         [Len(CategoriesKeyed(self, self._product_alias_to_key[Strip(ToLower(category_term))]))]
         .sql_expression

get_state_value(self, state_term) ==
  Get(self._state_alias_to_value, Strip(ToLower(state_term)), Title(state_term))

\* the lookup methods of the resolver
Methods == {"get_column_name", "get_measure_sql", "get_product_category_sql", "get_state_value"}

Resolve(self, method, term) ==
  IF method = "get_column_name" THEN get_column_name(self, term)
  ELSE IF method = "get_measure_sql" THEN get_measure_sql(self, term)
  ELSE IF method = "get_product_category_sql" THEN get_product_category_sql(self, term)
  ELSE get_state_value(self, term)

\* entries of vocabulary documents
ColumnAmt == [name |-> <<"a","m","t">>, aliases |-> <<<<"S","a","l","e","s">>>>, aggregation |-> <<"s","u","m">>]

ColumnQty == [name |-> <<"q","t","y">>, aliases |-> <<<<"s","a","l","e","s">>, <<"u","n","i","t","s">>>>, aggregation |-> <<"s","u","m">>]

ColumnItem == [name |-> <<"i","t","e","m">>, aliases |-> <<<<"P","r","o","d","u","c","t">>>>, aggregation |-> <<"s","u","m">>]

\* vocabulary documents: without a collision, and with the alias `sales' (in two
\* casings) under the columns amt and qty, in either order
Documents ==
  {[columns |-> cols,
    measures |-> <<<<"a","m","t">>, <<"q","t","y">>>>,
    derived_measures |-> << [name |-> <<"a","s","p">>, expression |-> <<"a","/","b">>, aliases |-> <<<<"a","v","g"," ","p","r","i","c","e">>>>] >>,
    product_categories |->
      << [key |-> <<"w","i","r","e","s">>, business_term |-> <<"W","i","r","e","s">>, aliases |-> <<<<"b","w">>>>,
          sql_expression |-> <<"g"," ","L","I","K","E"," ","'","W","%","'">>] >>,
    indian_states |-> << [key |-> <<"g","o","a">>, value |-> <<"G","o","a">>, aliases |-> <<<<"g","a">>>>] >>] :
   cols \in {<<ColumnAmt, ColumnItem>>, <<ColumnAmt, ColumnQty>>, <<ColumnQty, ColumnAmt>>}}

\* the terms looked up: registered terms exact, in other casings, padded; unmapped terms
Terms == {<<"s","a","l","e","s">>,
   <<"S","A","L","E","S">>,
   <<" ","S","a","l","e","s"," ">>,
   <<"u","n","i","t","s">>,
   <<"a","m","t">>,
   <<"A","m","t"," ">>,
   <<"p","r","o","d","u","c","t">>,
   <<"a","s","p">>,
   <<" ","A","S","P">>,
   <<"b","w">>,
   <<"B","W"," ">>,
   <<"W","i","r","e","s">>,
   <<"g","a">>,
   <<" ","G","A">>,
   <<"g","o","a">>,
   <<"x","y","z">>,
   <<"n","e","w"," ","d","e","l","h","i">>}

\* schema = SemanticSchema(data), as SemanticSchema.load does
LoadSchema(doc) ==
  /\ ~schema.loaded
  /\ schema' = SemanticSchema(doc)
  /\ UNCHANGED <<hashSeed, validator, callerVars, statsVars, runVars, meterVars,
                 heap, instances, own, lookup>>

\* a lookup on the loaded schema
Lookup(method, term) ==
  /\ schema.loaded
  /\ lookup' = [method |-> method, arg |-> term, result |-> Resolve(schema, method, term)]
  /\ UNCHANGED <<hashSeed, validator, callerVars, statsVars, runVars, meterVars,
                 heap, instances, own, schema>>

NextResolver ==
  \/ \E doc \in Documents : LoadSchema(doc)
  \/ \E method \in Methods, term \in Terms : Lookup(method, term)

SpecResolver == Init /\ [][NextResolver]_vars

(***************************************************************************)
(* Properties of ChatService.ask                                           *)
(***************************************************************************)

InTrace(r, stage) == \E i \in 1..Len(trace[r]) : trace[r][i] = stage

IsPrefix(a, b) == Len(a) <= Len(b) /\ \A i \in 1..Len(a) : a[i] = b[i]

\* the four stages of a run, in order
Stages == <<"generate_sql", "validate", "_execute_query", "format_answer">>

\* the stage methods run r has entered (the local fallback formatter belongs to
\* the formatting stage)
StagesEntered(r) == SelectSeq(trace[r], LAMBDA m : m # "_simple_format")

\* C1: a run enters the stages only in the order generation, validation, execution,
\* formatting, each one only after the previous one succeeded: _execute_query is
\* called only after validate accepted the candidate of the same run, and a run that
\* ends with SQL_GENERATION_FAILED or SQL_VALIDATION_FAILED has called neither
\* _execute_query nor the formatter.
C1_StagesInOrder ==
  \A r \in Runs :
    /\ IsPrefix(StagesEntered(r), Stages)
    /\ InTrace(r, "_simple_format") => InTrace(r, "format_answer")
    /\ InTrace(r, "_execute_query") =>
         /\ validation_result[r].is_valid
         /\ validation_result[r].sanitized_sql = Strip(candidate[r])
         /\ run_sql[r] = validation_result[r].sanitized_sql
    /\ resp[r].status \in {"SQL_GENERATION_FAILED", "SQL_VALIDATION_FAILED"} =>
         /\ ~InTrace(r, "_execute_query")
         /\ ~InTrace(r, "format_answer")
         /\ ~InTrace(r, "_simple_format")
    /\ resp[r].status = "SQL_VALIDATION_FAILED" =>
         trace[r] = <<"generate_sql", "validate">> /\ ~validation_result[r].is_valid

\* a run went through all four stages and returned SUCCESS
C1_Witness ==
  \E r \in Runs :
    /\ StagesEntered(r) = Stages
    /\ resp[r].status = "SUCCESS"
    /\ validation_result[r].is_valid

TerminalStatuses ==
  {"SUCCESS", "SQL_GENERATION_FAILED", "SQL_VALIDATION_FAILED", "SQL_EXECUTION_FAILED",
   "NO_RESULTS"}

\* C2: every run of ask that ends returns a ChatResponse whose status is one of
\* SUCCESS, SQL_GENERATION_FAILED, SQL_VALIDATION_FAILED, SQL_EXECUTION_FAILED,
\* NO_RESULTS; no Exception raised in a stage propagates out of ask (what does
\* propagate is the caller's cancellation, which is not an Exception).
C2_TerminalStatus ==
  \A r \in Runs :
    pc[r] = "done" =>
      /\ resp[r].status # "Exception"
      /\ resp[r].status # "CancelledError" => resp[r].status \in TerminalStatuses

\* the database raised, and the run returned SQL_EXECUTION_FAILED
C2_Witness ==
  \E r \in Runs :
    /\ pc[r] = "done"
    /\ resp[r].status = "SQL_EXECUTION_FAILED"
    /\ resp[r].error = <<"str(e)">>

\* C4 as claimed: when generation returns "DROP TABLE sales_analytics" the validator
\* rejects it with kind DeniedKeyword, the executor is not invoked and the run ends
\* with SQL_VALIDATION_FAILED.
C4_Original ==
  \A r \in Runs :
    candidate[r] = RawDrop =>
      /\ validation_result[r].error_type = "DANGEROUS_KEYWORD"
      /\ ~InTrace(r, "_execute_query")
      /\ resp[r].status = "SQL_VALIDATION_FAILED"

\* C4 as amended: when generation returns "DROP TABLE sales_analytics" the validator
\* rejects it with kind NotASelect (NON_SELECT_QUERY, naming DROP as the keyword
\* found), the executor is not invoked and the run ends with SQL_VALIDATION_FAILED.
C4_DropRejected ==
  \A r \in Runs :
    candidate[r] = RawDrop =>
      /\ ~validation_result[r].is_valid
      /\ validation_result[r].error_type = "NON_SELECT_QUERY"
      /\ validation_result[r].error_message =
           Msg("Only SELECT queries are allowed. Found: ", <<"D","R","O","P">>)
      /\ ~InTrace(r, "_execute_query")
      /\ resp[r].status = "SQL_VALIDATION_FAILED"
      /\ resp[r].error = validation_result[r].error_message

\* generation returned "DROP TABLE sales_analytics" and the run has ended
C4_Witness ==
  \E r \in Runs :
    /\ candidate[r] = RawDrop
    /\ pc[r] = "done"
    /\ InTrace(r, "validate")

\* no run is between its start and its end
Quiet == \A r \in Runs : pc[r] \in {"idle", "done"}

\* C10 as claimed: every run increments total_questions once and exactly one of
\* successful_questions and failed_questions once, however it ends, so that
\* total_questions = successful_questions + failed_questions whenever no run is in
\* flight.
C10_Claim ==
  /\ total_questions = Cardinality({r \in Runs : pc[r] # "idle"})
  /\ Quiet => total_questions = successful_questions + failed_questions

\* C11 as claimed: under any interleaving of runs on the shared service, and with
\* reset_stats executed while runs are in flight, the counters stay correct: in every
\* reachable state successful_questions + failed_questions <= total_questions.
C11_Claim == successful_questions + failed_questions <= total_questions

\* the run returned a ChatResponse
Returned(r) == pc[r] = "done" /\ resp[r].status \in TerminalStatuses

\* the latency field of the response for each stage
LatencyField(r) ==
  [generation |-> resp[r].sql_generation_time_ms,
   execution |-> resp[r].sql_execution_time_ms,
   formatting |-> resp[r].answer_formatting_time_ms]

\* C12 as claimed: every ChatResponse carries the data accumulated up to the end of
\* the run: for every stage that was started and has ended (a generation stage that
\* ended by raising included) the latency field of that stage holds its measured
\* duration, and tokens_used and estimated_cost_usd are the sums over the
\* text-generation calls completed in the run.
C12_Claim ==
  \A r \in Runs :
    Returned(r) =>
      /\ \A stage \in DOMAIN measured[r] : LatencyField(r)[stage] = measured[r][stage]
      /\ resp[r].tokens_used = run_tokens[r]
      /\ resp[r].estimated_cost_usd = run_cost[r]

\* C13: in every ChatResponse, sql_generation_time_ms + sql_execution_time_ms +
\* answer_formatting_time_ms <= total_time_ms, the clock being non-decreasing and
\* each duration truncated to whole milliseconds.
C13_LatenciesWithinTotal ==
  \A r \in Runs :
    Returned(r) =>
      resp[r].sql_generation_time_ms + resp[r].sql_execution_time_ms
        + resp[r].answer_formatting_time_ms <= resp[r].total_time_ms

\* a run whose three stages each took half a millisecond more than a whole number
\* of milliseconds: the truncated latencies add up to less than the total
C13_Witness ==
  \E r \in Runs :
    /\ Returned(r)
    /\ resp[r].status = "SUCCESS"
    /\ resp[r].total_time_ms > 0
    /\ resp[r].sql_generation_time_ms + resp[r].sql_execution_time_ms
         + resp[r].answer_formatting_time_ms < resp[r].total_time_ms

\* C14: every statement the executor dispatches has a row limit of at most max_results
\* in force, and no run gets more than max_results rows
C14_Claim ==
  \A r \in Runs :
    /\ results[r] <= MaxResults
    /\ dispatched[r] # None =>
         \E n \in LimitInForce(dispatched[r]) : n <= MaxResults

\* the database read of run r came back without error
ExecutedOk(r) == Len(outcomes[r]) >= 2 /\ outcomes[r][2] = "ok"

\* C15: a run whose query executed without error and returned zero rows ends with
\* status NO_RESULTS, row_count 0 and the non-empty no-data answer, and neither the
\* formatter nor the fallback is invoked
C15_NoResults ==
  \A r \in Runs :
    ExecutedOk(r) /\ results[r] = 0 =>
      /\ pc[r] = "done"
      /\ resp[r].status = "NO_RESULTS"
      /\ resp[r].row_count = 0
      /\ resp[r].answer = NoResultsAnswer
      /\ resp[r].answer[1] # ""
      /\ ~InTrace(r, "format_answer")
      /\ ~InTrace(r, "_simple_format")
      /\ requests[r].format_answer = 0

C15_Witness == \E r \in Runs : ExecutedOk(r) /\ results[r] = 0 /\ pc[r] = "done"

\* the remote formatting call of run r reported failure or raised an Exception
FormatFailed(r) ==
  Len(outcomes[r]) = 3 /\ outcomes[r][3] \in {"failed", "Exception"}

\* the lines of an answer that list a row
RowLines(lines) == SelectSeq(lines, LAMBDA l : l[1] = "{i}. {col}: {val}, ...")

\* C16: when execution returned at least one row and the remote formatting call
\* reports failure or raises, the run ends with status SUCCESS and a non-empty
\* answer of the local fallback: a header, the first rows in order and at most 10 of
\* them as field: value lines and, when there are more than 10 rows, a last line
\* saying that row count - 10 more rows exist; the fallback sends no request
C16_Fallback ==
  \A r \in Runs :
    FormatFailed(r) =>
      /\ results[r] >= 1
      /\ pc[r] = "done"
      /\ resp[r].status = "SUCCESS"
      /\ resp[r].row_count = results[r]
      /\ InTrace(r, "_simple_format")
      /\ resp[r].answer[1] # ""
      /\ Len(RowLines(resp[r].answer[2])) = (IF results[r] < 10 THEN results[r] ELSE 10)
      /\ \A i \in 1..Len(RowLines(resp[r].answer[2])) :
           /\ RowLines(resp[r].answer[2])[i][2] = i
           /\ resp[r].answer[2][i + 1] = RowLines(resp[r].answer[2])[i]
      /\ results[r] > 10 =>
           resp[r].answer[2][Len(resp[r].answer[2])]
             = <<"\\n... and {len(results) - 10} more rows", results[r] - 10>>
      /\ results[r] <= 10 => Len(resp[r].answer[2]) = 1 + results[r]
      /\ requests[r].format_answer <= 1 + max_retries

C16_Witness ==
  \E r \in Runs : FormatFailed(r) /\ results[r] > 10 /\ resp[r].status = "SUCCESS"

\* the text of a caught exception, as str(e) gives it
RawText == <<"str(e)">>

\* the templates that interpolate another message
Interpolating == {"AI service error: ", "I couldn't understand your question. "}

RECURSIVE Embeds(_)
\* the message m is, or interpolates, the text of an exception
Embeds(m) == m = RawText \/ (Len(m) = 2 /\ m[1] \in Interpolating /\ Embeds(m[2]))

\* C17: neither the answer nor the error of a returned ChatResponse contains the raw
\* text of an exception
C17_Claim ==
  \A r \in Runs : Returned(r) => ~Embeds(resp[r].answer) /\ ~Embeds(resp[r].error)

\* C18: total_requests equals the number of calls of the text-generation service
\* that came back, successfully or not, since the last reset
C18_Claim == total_requests = llm_calls

\* the stage method is invoked at most once in run r
AtMostOnce(r, stage) == Len(SelectSeq(trace[r], LAMBDA m : m = stage)) <= 1

\* C19: a run invokes generate_sql once and validate, _execute_query and
\* format_answer at most once, and each text-generation call sends exactly one
\* request to the external service
C19_Claim ==
  \A r \in Runs :
    /\ \A stage \in {"generate_sql", "validate", "_execute_query", "format_answer"} :
         AtMostOnce(r, stage)
    /\ pc[r] # "idle" => InTrace(r, "generate_sql") /\ requests[r].generate_sql = 1
    /\ requests[r].format_answer = (IF InTrace(r, "format_answer") THEN 1 ELSE 0)

\* C20: the run of ask eventually reaches a terminal outcome
C20_Claim == <>(pc[1] = "done")

\* the stage whose call is the k-th the run awaits
AwaitedStage == <<"generate_sql", "_execute_query", "format_answer">>

\* C21: when the caller cancels a run while a call is in flight, the run ends there
\* with the cancellation propagating: the last stage invoked is the one that was in
\* flight, and neither validate, _execute_query, format_answer nor _simple_format is
\* invoked afterwards
C21_CancelStops ==
  \A r \in Runs :
    \A k \in DOMAIN outcomes[r] :
      outcomes[r][k] = "CancelledError" =>
        /\ k = Len(outcomes[r])
        /\ pc[r] = "done"
        /\ resp[r].status = "CancelledError"
        /\ trace[r][Len(trace[r])] = AwaitedStage[k]
        /\ ~InTrace(r, "_simple_format")
        /\ k = 1 => trace[r] = <<"generate_sql">>

C21_Witness ==
  \E r \in Runs : outcomes[r] = <<"ok", "ok", "CancelledError">> /\ pc[r] = "done"

\* texts that name a table
TableProbes ==
  { <<"S","E","L","E","C","T"," ","a"," ","F","R","O","M"," ","t">>,
    <<"S","E","L","E","C","T"," ","a"," ","F","R","O","M"," ","s","t","o","c","k","_","g","w">> }

\* C22: add_allowed_table and remove_allowed_table on one instance leave the module-level
\* ALLOWED_TABLES, and the allowlist and the verdicts of every other instance, unchanged:
\* every instance has the allowlist, and gives the verdicts, that its own calls imply
C22_Claim ==
  /\ heap[0] = ALLOWED_TABLES
  /\ \A i \in Instances :
       /\ InstanceOf(i).allowed_tables = own[i]
       /\ \A text \in TableProbes :
            validate(InstanceOf(i), text)
              = validate([InstanceOf(i) EXCEPT !.allowed_tables = own[i]], text)

\* the terms the document registers for a lookup method, each with its canonical entry
Registered(doc, method) ==
  IF method = "get_column_name" THEN ColumnPairs(doc)
  ELSE IF method = "get_measure_sql"
  THEN DerivedPairs(doc)
         \o SelectSeq(ColumnPairs(doc),
                      LAMBDA p : \E n \in 1..Len(doc.measures) : doc.measures[n] = p[2])
  ELSE IF method = "get_product_category_sql" THEN ProductPairs(doc)
  ELSE StatePairs(doc)

\* the term names the registered term e, up to letter case and surrounding whitespace
Names(term, e) == ToLower(Strip(term)) = ToLower(Strip(e))

\* a lookup has been made
LookedUp == schema.loaded /\ lookup.method \in Methods

\* C23: a lookup of a registered term in any letter casing and with any leading or
\* trailing whitespace returns what the lookup of the exact term returns
C23_Claim ==
  LookedUp =>
    \A n \in 1..Len(Registered(schema.raw, lookup.method)) :
      Names(lookup.arg, Registered(schema.raw, lookup.method)[n][1]) =>
        lookup.result
          = Resolve(schema, lookup.method, Registered(schema.raw, lookup.method)[n][1])

\* one alias, compared case-insensitively, is registered under two canonical entries
Collides(doc) ==
  \E method \in Methods :
    \E n, m \in 1..Len(Registered(doc, method)) :
      /\ ToLower(Registered(doc, method)[n][1]) = ToLower(Registered(doc, method)[m][1])
      /\ Registered(doc, method)[n][2] # Registered(doc, method)[m][2]

\* C24: no resolver is constructed from a document in which an alias collides
C24_Claim == schema.loaded => ~Collides(schema.raw)

\* C25: a lookup of a term that names no registered term returns None
C25_Claim ==
  LookedUp =>
    ((\A n \in 1..Len(Registered(schema.raw, lookup.method)) :
        ~Names(lookup.arg, Registered(schema.raw, lookup.method)[n][1]))
      => lookup.result = None)

\* the checks that match a denylisted keyword or an injection pattern
MatchingChecks == {"DANGEROUS_KEYWORD", "INJECTION_DETECTED"}

\* C26: the message of a rejection by the keyword check or the injection check does
\* not contain the matched keyword or pattern, and two texts rejected by the same
\* check get the same message
C26_Claim ==
  /\ verdict.error_type \in MatchingChecks => verdict.error_message[2] = <<>>
  /\ (verdict.error_type \in MatchingChecks /\ verdict.error_type = firstVerdict.error_type)
       => verdict.error_message = firstVerdict.error_message

\* run r holds the content of a successful generation response
GeneratedOk(r) == outcomes[r] # <<>> /\ outcomes[r][1] = "ok"

Select == <<"S","E","L","E","C","T">>

\* the text without the code-fence markers around it
Unfenced(text) ==
  Strip(IF StartsWith(Strip(text), FenceSql) /\ EndsWith(Strip(text), Fence)
          THEN Slice(Strip(text), 7, Len(Strip(text)) - 3)
        ELSE IF StartsWith(Strip(text), FenceSql) THEN Slice(Strip(text), 7, Len(Strip(text)))
        ELSE IF StartsWith(Strip(text), Fence) /\ EndsWith(Strip(text), Fence)
          THEN Slice(Strip(text), 4, Len(Strip(text)) - 3)
        ELSE IF StartsWith(Strip(text), Fence) THEN Slice(Strip(text), 4, Len(Strip(text)))
        ELSE IF EndsWith(Strip(text), Fence) THEN Slice(Strip(text), 1, Len(Strip(text)) - 3)
        ELSE Strip(text))

\* from index i of the text to just before the first ';' after it, or to the end
UpToTerminator(text, i) ==
  Slice(text, i, IF FindFrom(<<";">>, text, i) = 0 THEN Len(text)
                 ELSE FindFrom(<<";">>, text, i) - 1)

\* the statement that begins at the first occurrence of SELECT, in any case
FirstStatement(text) == UpToTerminator(text, FindFrom(Select, ToUpper(text), 1))

\* C29: the candidate of a successful generation whose text holds SELECT is, up to
\* surrounding whitespace, the unfenced text from its first SELECT to just before the
\* first ';' after it, or to its end
C29_Claim ==
  \A r \in Runs :
    (GeneratedOk(r) /\ Contains(Select, ToUpper(generated[r])))
      => Strip(candidate[r]) = Strip(FirstStatement(Unfenced(generated[r])))

\* SELECT, in any case, occurs in the text with whitespace after it
SelectThenSpace(text) ==
  \E i \in 1..(Len(text) - 6) : OccursAt(Select, ToUpper(text), i) /\ IsSpace(text[i + 6])

\* the candidate of run r begins with SELECT, holds no ';', and the validator neither
\* took it for several statements nor for a WITH query
OneSelect(r) ==
  /\ StartsWith(ToUpper(candidate[r]), Select)
  /\ ~Contains(<<";">>, candidate[r])
  /\ ~StartsWith(ToUpper(Strip(candidate[r])), <<"W","I","T","H">>)
  /\ validation_result[r].error_type # "MULTIPLE_STATEMENTS"

Validated == calls > 0

\* the text as validate sees it after trimming
Trimmed(text) == Strip(text)

\* the denylisted keyword kw stands at index i of text as a word of its own, in any
\* letter case: no word character touches it on either side
StandaloneAt(kw, text, i) ==
  /\ OccursAt(kw, ToUpper(text), i)
  /\ i = 1 \/ ~IsWordChar(text[i - 1])
  /\ i + Len(kw) > Len(text) \/ ~IsWordChar(text[i + Len(kw)])

ContainsStandaloneKeyword(text) ==
  \E k \in 1..Len(DANGEROUS_KEYWORDS), i \in 1..Len(text) :
    StandaloneAt(DANGEROUS_KEYWORDS[k], text, i)

\* some denylisted keyword occurs in text, and every occurrence of one is part of a
\* longer identifier
KeywordOnlyEmbedded(text) ==
  /\ \E k \in 1..Len(DANGEROUS_KEYWORDS) : Contains(DANGEROUS_KEYWORDS[k], ToUpper(text))
  /\ ~ContainsStandaloneKeyword(text)

\* ';' occurs in the trimmed text somewhere else than as its last character
SeparatorMisplaced(text) ==
  \E i \in 1..(Len(Trimmed(text)) - 1) : Trimmed(text)[i] = ";"

\* the text is not empty, not too long, has no ';' before its trailing ones and
\* begins with SELECT, or with a permitted WITH that contains SELECT
ReachesKeywordScan(text) ==
  LET t == Trimmed(text)
      body == RStripChars(t, {";"})
  IN /\ t # <<>>
     /\ Len(t) <= validator.max_query_length
     /\ \A i \in 1..Len(body) : body[i] # ";"
     /\ \/ IsPrefix(<<"S","E","L","E","C","T">>, ToUpper(t))
        \/ /\ IsPrefix(<<"W","I","T","H">>, ToUpper(t))
           /\ validator.allow_cte
           /\ Contains(<<"S","E","L","E","C","T">>, ToUpper(t))

\* C3 as claimed: every text that contains a denylisted keyword as a standalone
\* word, in any letter case, is rejected with kind DeniedKeyword (DANGEROUS_KEYWORD).
C3_Original ==
  (Validated /\ ContainsStandaloneKeyword(input)) =>
     (~verdict.is_valid /\ verdict.error_type = "DANGEROUS_KEYWORD")

\* C3 as amended: every text that contains a denylisted keyword as a standalone
\* word, in any letter case, is rejected; the kind is DANGEROUS_KEYWORD when the
\* text passes the four earlier checks, and otherwise the kind of the earlier check
\* that rejects it (SYNTAX_ERROR for the length, MULTIPLE_STATEMENTS,
\* NON_SELECT_QUERY).
C3_KeywordRejected ==
  (Validated /\ ContainsStandaloneKeyword(input)) =>
     /\ ~verdict.is_valid
     /\ verdict.error_type \in
          {"SYNTAX_ERROR", "MULTIPLE_STATEMENTS", "NON_SELECT_QUERY", "DANGEROUS_KEYWORD"}
     /\ ReachesKeywordScan(input) <=> verdict.error_type = "DANGEROUS_KEYWORD"

\* a lower-case keyword between blanks, at the end of a SELECT, was rejected as such
C3_Witness ==
  /\ Validated
  /\ input = <<"S","E","L","E","C","T"," ","1"," ","d","r","o","p"," ">>
  /\ verdict.error_type = "DANGEROUS_KEYWORD"
  /\ verdict.error_message[2] = <<"D","R","O","P">>

\* the checks of validate, in the order claimed, each applied on its own
CheckKinds ==
  <<"EMPTY_QUERY", "SYNTAX_ERROR", "MULTIPLE_STATEMENTS", "NON_SELECT_QUERY",
    "DANGEROUS_KEYWORD", "INJECTION_DETECTED", "INVALID_TABLE">>

CheckFails(n, text) ==
  LET t == Trimmed(text)
  IN CASE n = 1 -> t = <<>>
       [] n = 2 -> Len(t) > validator.max_query_length
       [] n = 3 -> ~_check_multiple_statements(t).is_valid
       [] n = 4 -> ~_check_is_select_query(validator, ToUpper(t)).is_valid
       [] n = 5 -> ~_check_dangerous_keywords(ToUpper(t)).is_valid
       [] n = 6 -> ~_check_injection_patterns(ToUpper(t), t).is_valid
       [] n = 7 -> ~_check_table_names(validator, t).is_valid

FailingChecks(text) == {n \in 1..7 : CheckFails(n, text)}

\* C5: validate rejects a text with the kind of the earliest check that fails, in
\* the order empty, length, multiple statements, leading SELECT/WITH, denylisted
\* keyword, injection pattern, table allowlist, and accepts it when none fails.
C5_FirstFailingCheck ==
  Validated =>
    LET failing == FailingChecks(input)
    IN IF failing = {} THEN verdict.is_valid
       ELSE /\ ~verdict.is_valid
            /\ verdict.error_type = CheckKinds[CHOOSE n \in failing : \A m \in failing : n <= m]

\* "SELECT 1; DROP TABLE x" fails the multiple-statement check and the keyword scan,
\* and was rejected as MULTIPLE_STATEMENTS
C5_Witness ==
  /\ Validated
  /\ input = <<"S","E","L","E","C","T"," ","1",";"," ","D","R","O","P"," ","T","A","B","L","E"," ","x">>
  /\ {3, 5} \subseteq FailingChecks(input)
  /\ verdict.error_type = "MULTIPLE_STATEMENTS"

\* a comment delimiter occurs in the trimmed text other than as a `--' that ends it
CommentMisplaced(text) ==
  \/ Contains(<<"/","*">>, Trimmed(text))
  \/ Contains(<<"*","/">>, Trimmed(text))
  \/ Contains(<<"#">>, Trimmed(text))
  \/ \E i \in 1..(Len(Trimmed(text)) - 2) : OccursAt(<<"-","-">>, Trimmed(text), i)

\* C27: a text that passes the checks before the injection scan and contains a comment
\* delimiter other than a `--' that ends it is rejected with INJECTION_DETECTED
C27_Claim ==
  (Validated /\ FailingChecks(input) \cap (1..5) = {} /\ CommentMisplaced(input))
    => ~verdict.is_valid /\ verdict.error_type = "INJECTION_DETECTED"

\* the table names the text mentions after FROM or JOIN, quotes removed, in lower case,
\* that the validator's allowlist does not hold
Unlisted(text) ==
  {CleanTables(TablesFound(ToUpper(Trimmed(text))))[k] :
     k \in 1..Len(TablesFound(ToUpper(Trimmed(text))))}
    \ {ToLower(a) : a \in validator.allowed_tables}

IsTrimOf(t, text) ==
  \E a \in 1..Len(text), b \in 1..Len(text) :
    /\ a <= b
    /\ t = SubSeq(text, a, b)
    /\ ~IsSpace(text[a]) /\ ~IsSpace(text[b])
    /\ \A i \in 1..Len(text) : (i < a \/ i > b) => IsSpace(text[i])

\* t without one trailing ';'
WithoutOneSeparator(t) ==
  IF Len(t) > 0 /\ t[Len(t)] = ";" THEN SubSeq(t, 1, Len(t) - 1) ELSE t

\* C6 as claimed: the sanitized query of an accepted text is the text trimmed, with
\* a single trailing ';' stripped, and otherwise unchanged.
C6_Original ==
  (Validated /\ verdict.is_valid) =>
     \E t \in {Trimmed(input)} :
        IsTrimOf(t, input) /\ verdict.sanitized_sql = WithoutOneSeparator(t)

\* C6 as amended: the sanitized query of an accepted text is the text with its
\* leading and trailing whitespace trimmed and no other character added, removed or
\* changed; a trailing ';' is kept.
C6_SanitizedIsTrimmed ==
  (Validated /\ verdict.is_valid) => IsTrimOf(verdict.sanitized_sql, input)

\* an accepted text that had whitespace to trim and ends with ';'
C6_Witness ==
  /\ Validated
  /\ verdict.is_valid
  /\ verdict.sanitized_sql # input
  /\ verdict.sanitized_sql[Len(verdict.sanitized_sql)] = ";"

\* C7 as claimed: a text that reaches the multiple-statement check is rejected as
\* MULTIPLE_STATEMENTS whenever ';' occurs in it anywhere else than as one single
\* trailing terminator (texts ending in two or more ';' included), and passes that
\* check when its only ';' is its last character.
C7_Claim ==
  (Validated /\ Trimmed(input) # <<>> /\ Len(Trimmed(input)) <= validator.max_query_length) =>
     /\ SeparatorMisplaced(input) => verdict.error_type = "MULTIPLE_STATEMENTS"
     /\ ~SeparatorMisplaced(input) => verdict.error_type # "MULTIPLE_STATEMENTS"

C9_EmbeddedKeywordPasses ==
  (Validated /\ KeywordOnlyEmbedded(input)) =>
     /\ verdict.error_type # "DANGEROUS_KEYWORD"
     /\ ReachesKeywordScan(input) =>
          verdict.error_type \in {NoneType, "INJECTION_DETECTED", "INVALID_TABLE"}

\* a SELECT over updated_at was accepted
C9_Witness ==
  /\ Validated
  /\ KeywordOnlyEmbedded(input)
  /\ Contains(<<"U","P","D","A","T","E","D","_","A","T">>, ToUpper(input))
  /\ verdict.is_valid

====
